---- MODULE Spec2Model ----
(***************************************************************************)
(* Browser Perception & Action Engine: the page controller (page.ts) and   *)
(* the DOM node's memoized identity hash (views.ts).                        *)
(*                                                                         *)
(* These state machines share this module:                                 *)
(*   SpecHash    one DOMElementNode and its hash cache (views.ts 83-139);  *)
(*   Spec        one Page controller: attach, detach, getState and the     *)
(*               snapshot refresh _updateState (page.ts 62-286);           *)
(*   SpecClick   the attached controller being clicked (page.ts 994-1158); *)
(*   SpecInput   the attached controller being typed into (page.ts 818-942);*)
(*   SpecSelect  the attached controller selecting dropdown options        *)
(*               (page.ts 616-690);                                        *)
(*   SpecKeys    the attached controller sending key combinations          *)
(*               (page.ts 435-536);                                        *)
(*   SpecNav     navigation, scrolling and scrollToText on a controller    *)
(*               that is attached and detached (page.ts 346-433, 538-576); *)
(*   SpecNavWait the navigation verbs beside the page-settle wait they     *)
(*               start (page.ts 346-433, 1211-1403);                       *)
(*   SpecSelector  selector synthesis as a function (views.ts 231-381);    *)
(*   SpecLocate  locateElement through iframes and its strategies          *)
(*               (page.ts 692-816);                                        *)
(*   SpecScroll  the scroll stabilization wait _scrollIntoViewIfNeeded      *)
(*               (page.ts 944-992), SpecScrollLive with its steps fair;    *)
(*   SpecNet     the network wait of waitForPageAndFramesLoad              *)
(*               (page.ts 1211-1403), SpecNetLive with its timers fair.    *)
(* Asynchronous methods are cut at their awaits: every await that talks to *)
(* the browser is one step whose outcome (a value or a rejection) the      *)
(* environment chooses.                                                    *)
(***************************************************************************)
EXTENDS Integers, Sequences, FiniteSets, TLC

VARIABLES
  \* ---- views.ts: one DOMElementNode and its hash cache
  hashedValue,   \* _hashedValue: 0 = undefined, else the cached hash value
  hashPromise,   \* _hashPromise: 0 = undefined, else the computation it chains on
  hashedBy,      \* the computation whose result _hashedValue holds (0 = none)
  comps,         \* every hashDomElement invocation, in start order
  calls,         \* every hash() call, in issue order
  epoch,         \* number of clearHashCache() calls so far
  nodeVersion,   \* number of modifications of the node's hashed fields so far
  hashTag,       \* the node's tagName ("NULL" = null)
  lastEvent,     \* the last step taken on the node
  \* ---- page.ts: one Page controller
  tabId,         \* _tabId as given to the constructor
  ctorUrl,       \* the url given to the constructor
  browser,       \* _browser: "null" or "open"
  puppeteerPage, \* _puppeteerPage: 0 = null, else a document handle
  openPages,     \* the document handles the browser still holds open
  state,         \* _state: the controller's PageState
  pc,            \* where the one operation in flight stands ("idle": none)
  op,            \* the locals of the operation in flight and what it did
  refreshNo,     \* number of _updateState runs started so far
  result,        \* how the last finished operation ended
  selValue,      \* the value of the live select control in the page
  transport,     \* transports opened and shim suites installed since the last
                 \* detach, and whether a detach completed since the last open
  handed,        \* the PageState getState last returned: whether it is the
                 \* object _state still refers to, and its fields on return
  \* ---- page.ts: one run of waitForPageAndFramesLoad and its network monitor
  netPc,            \* "off", "polling", "minwait", "returned"
  clock,            \* Date.now(), in polling intervals (100 ms) since the wait began
  pendingRequests,  \* pendingRequests
  lastActivity,     \* lastActivity
  startTime,        \* startTime of the polling loop
  lastPoll,         \* when the loop's timer last fired
  netEv,            \* the last step of the wait, with what it found
  netLog            \* the debug messages written so far

hashVars == <<hashedValue, hashPromise, hashedBy, comps, calls, epoch,
              nodeVersion, hashTag, lastEvent>>

ctlVars == <<tabId, ctorUrl, browser, puppeteerPage, openPages, state, pc, op,
             refreshNo, result, selValue, transport, handed>>

netVars == <<netPc, clock, pendingRequests, lastActivity, startTime, lastPoll,
             netEv, netLog>>

\* ------------------------------------------------------------------ bounds
MaxCalls == 3
MaxComps == 3
MaxClears == 1
MaxVersion == 1
MaxRefresh == 2
\* waitForNetworkIdlePageLoadTime, maximumWaitPageLoadTime and
\* minimumWaitPageLoadTime of the configuration, in polling intervals
IdleWindow == 2
MaxWait == 3
MinWait == 1
\* The clock is followed until the wait must have given up.
MaxClock == MaxWait + 1

\* The timeout of the scroll stabilization, in polling intervals (100 ms).
ScrollTimeout == 3

\* ------------------------------------------------------------ hash (views.ts)

\* The value hashDomElement yields for the node as it was at version v
\* (never 0, which stands for undefined).
HashOf(v) == v + 1

\* `${this.tagName || 'unknown'}` in the enhanced error's message.
ErrTag(tag) == IF tag = "NULL" \/ tag = "" THEN "unknown" ELSE tag

CacheHitNever == FALSE

\* if (this._hashedValue) return this._hashedValue;
CacheHit == hashedValue # 0

\* if (!this._hashPromise) { ... start ... }  -- negated: a computation is registered
InFlight == hashPromise # 0

NewComp == [status |-> "pending", version |-> nodeVersion, epoch |-> epoch,
            val |-> 0]

NewCall(c, st, v, by, started) ==
  [comp |-> c, status |-> st, val |-> v, servedBy |-> by, epoch |-> epoch,
   started |-> started, afterReject |-> (lastEvent = "reject"), errTag |-> "-"]

InitHash ==
  /\ hashedValue = 0
  /\ hashPromise = 0
  /\ hashedBy = 0
  /\ comps = <<>>
  /\ calls = <<>>
  /\ epoch = 0
  /\ nodeVersion = 0
  /\ hashTag \in {"div", "NULL"}
  /\ lastEvent = "none"

\* hash(): served from the cache, attached to the registered computation, or
\* starting hashDomElement and registering its chained promise.
HashCall ==
  /\ Len(calls) < MaxCalls
  /\ IF CacheHit
       THEN /\ calls' = Append(calls, NewCall(0, "returned", hashedValue, hashedBy, FALSE))
            /\ UNCHANGED <<hashPromise, comps>>
       ELSE IF InFlight
         THEN /\ calls' = Append(calls, NewCall(hashPromise, "waiting", 0, hashPromise, FALSE))
              /\ UNCHANGED <<hashPromise, comps>>
         ELSE /\ Len(comps) < MaxComps
              /\ comps' = Append(comps, NewComp)
              /\ hashPromise' = Len(comps) + 1
              /\ calls' = Append(calls, NewCall(Len(comps) + 1, "waiting", 0, Len(comps) + 1, TRUE))
  /\ lastEvent' = "call"
  /\ UNCHANGED <<hashedValue, hashedBy, epoch, nodeVersion, hashTag>>
  /\ UNCHANGED <<ctlVars, netVars>>

\* hashDomElement's promise fulfils: the .then handler stores the value and drops
\* the promise reference, then every caller awaiting the chained promise gets it.
CompResolve(i) ==
  /\ comps[i].status = "pending"
  /\ LET v == HashOf(comps[i].version) IN
     /\ comps' = [comps EXCEPT ![i].status = "resolved", ![i].val = v]
     /\ hashedValue' = v
     /\ hashedBy' = i
     /\ hashPromise' = 0
     /\ calls' = [c \in DOMAIN calls |->
                    IF calls[c].comp = i /\ calls[c].status = "waiting"
                      THEN [calls[c] EXCEPT !.status = "returned", !.val = v]
                      ELSE calls[c]]
  /\ lastEvent' = "resolve"
  /\ UNCHANGED <<epoch, nodeVersion, hashTag>>
  /\ UNCHANGED <<ctlVars, netVars>>

\* hashDomElement's promise rejects: the .catch handler drops the promise
\* reference and rethrows the enhanced error to every caller awaiting it.
CompReject(i) ==
  /\ comps[i].status = "pending"
  /\ comps' = [comps EXCEPT ![i].status = "rejected"]
  /\ hashPromise' = 0
  /\ calls' = [c \in DOMAIN calls |->
                 IF calls[c].comp = i /\ calls[c].status = "waiting"
                   THEN [calls[c] EXCEPT !.status = "threw", !.errTag = ErrTag(hashTag)]
                   ELSE calls[c]]
  /\ lastEvent' = "reject"
  /\ UNCHANGED <<hashedValue, hashedBy, epoch, nodeVersion, hashTag>>
  /\ UNCHANGED <<ctlVars, netVars>>

\* clearHashCache()
ClearHashCache ==
  /\ epoch < MaxClears
  /\ hashedValue' = 0
  /\ hashPromise' = 0
  /\ hashedBy' = 0
  /\ epoch' = epoch + 1
  /\ lastEvent' = "clear"
  /\ UNCHANGED <<comps, calls, nodeVersion, hashTag>>
  /\ UNCHANGED <<ctlVars, netVars>>

\* A caller assigns one of the node's public fields (attributes, xpath, ...).
ModifyNode ==
  /\ nodeVersion < MaxVersion
  /\ nodeVersion' = nodeVersion + 1
  /\ lastEvent' = "modify"
  /\ UNCHANGED <<hashedValue, hashPromise, hashedBy, comps, calls, epoch, hashTag>>
  /\ UNCHANGED <<ctlVars, netVars>>

\* ------------------------------------------------- data model (views.ts, types)

NoPt == <<>>

\* A DOMElementNode as the controller reads it: tagName ("NULL" = null),
\* highlightIndex (-1 = undefined), viewportCoordinates.center, pageCoordinates
\* .center and viewportInfo's scrollX/scrollY (NoPt = undefined), and ident, the
\* element's logical identity (tag, xpath, attributes).
Node(tag, idx, vp, pg, sc, ident) ==
  [tagName |-> tag, highlightIndex |-> idx, vp |-> vp, pg |-> pg, scroll |-> sc,
   ident |-> ident]

NoNode == Node("NULL", -1, NoPt, NoPt, NoPt, "none")

\* The documents the extraction collaborator may report, each as the element
\* nodes of its tree in document order. Document 0 is the synthetic root with
\* no children that build_initial_state creates.
Docs == {1, 2}

DocNodes(d) ==
  CASE d = 1 -> << Node("button", 0, <<5, 5>>, <<5, 9>>, <<0, 4>>, "buy"),
                   Node("select", 1, NoPt, NoPt, NoPt, "size") >>
    [] d = 2 -> << Node("div", 0, NoPt, <<6, 8>>, NoPt, "banner"),
                   Node("p", -1, NoPt, NoPt, NoPt, "text"),
                   Node("SELECT", 1, NoPt, NoPt, NoPt, "size"),
                   Node("button", 2, <<5, 5>>, NoPt, NoPt, "buy") >>
    [] OTHER -> << >>

Range(f) == {f[i] : i \in DOMAIN f}

\* The highlightIndex values carried by the nodes of a tree.
TreeIndices(d) == {n.highlightIndex : n \in {m \in Range(DocNodes(d)) : m.highlightIndex # -1}}

\* The selectorMap the extraction builds for document d: highlightIndex -> node.
SelectorMapOf(d) ==
  [i \in TreeIndices(d) |-> CHOOSE n \in Range(DocNodes(d)) : n.highlightIndex = i]

\* selectorMap.get(index): the node, or NoNode for undefined.
MapGet(m, index) ==
  IF index \in DOMAIN SelectorMapOf(m.doc) THEN SelectorMapOf(m.doc)[index] ELSE NoNode

\* A PageState field with the refresh that wrote it (gen 0: build_initial_state).
Field(g, v) == [gen |-> g, val |-> v]

\* build_initial_state(tabId, url, title): `tabId || 0`, `url || ''`, `title || ''`.
build_initial_state(tab, url, title) ==
  [elementTree |-> [gen |-> 0, doc |-> 0],
   selectorMap |-> [gen |-> 0, doc |-> 0],
   tabId |-> tab,
   url |-> Field(0, url),
   title |-> Field(0, title),
   screenshot |-> Field(0, "null"),
   pixelsAbove |-> Field(0, 0),
   pixelsBelow |-> Field(0, 0)]

\* url.startsWith('http')
StartsWithHttp(u) == u = "http://site"

validWebPageAnyTab == ctorUrl # "" /\ StartsWithHttp(ctorUrl)

\* this._validWebPage = (tabId && url && url.startsWith('http')) || false
validWebPage == tabId # 0 /\ ctorUrl # "" /\ StartsWithHttp(ctorUrl)

\* get attached()
attached == validWebPage /\ puppeteerPage # 0

Handles == {1, 2}

Min(S) == CHOOSE x \in S : \A y \in S : x <= y

\* A DOMElementNode as selector synthesis and the locator see it: tagName (""
\* for null), xpath as its parts (<<>> for null or ''), the attribute map as its
\* entries in insertion order (hasAttributes false when the map is missing),
\* highlightIndex as text, and the ancestors from parent to root.
El(tagName, xpath, hasAttributes, attributes, highlightIndex, parents) ==
  [tagName |-> tagName, xpath |-> xpath, hasAttributes |-> hasAttributes,
   attributes |-> attributes, highlightIndex |-> highlightIndex, parents |-> parents]

NoEl == El("", <<>>, TRUE, <<>>, "undefined", <<>>)

\* The locals of an operation, before it has done anything.
FreshOp(name) ==
  [name |-> name, ret |-> "none", useVision |-> FALSE, focus |-> -1,
   node |-> NoNode, target |-> NoNode, hasHandle |-> FALSE, attempts |-> <<>>,
   content |-> 0, shot |-> "null", px |-> <<0, 0>>,
   before |-> state, refresh |-> "none", failStep |-> "none",
   returned |-> "none", recoveries |-> 0,
   index |-> -1, text |-> <<>>, locateCalls |-> 0, evalCalls |-> 0, events |-> 0,
   live |-> "none", valueBefore |-> "-",
   prior |-> [selected |-> FALSE, index |-> -1, text |-> <<>>, events |-> 0,
              info |-> <<>>],
   polls |-> <<>>, elapsed |-> 0,
   keyParts |-> <<>>, keylog |-> <<>>, keyFail |-> "none",
   url |-> <<>>, navError |-> [timedOut |-> FALSE, message |-> <<>>],
   amount |-> [given |-> FALSE, val |-> 0], scrolls |-> <<>>, pageCalls |-> 0,
   el |-> NoEl, dyn |-> TRUE, selector |-> <<>>, queries |-> <<>>]

ResultInfo(kind, reason, tag, idx, info) ==
  [kind |-> kind, reason |-> reason, tag |-> tag, idx |-> idx, info |-> info]

Result(kind, reason, tag, idx) == ResultInfo(kind, reason, tag, idx, <<>>)

\* No operation has finished since the one in flight began.
Pending == Result("none", "", "", -1)

InitCtl ==
  /\ tabId \in {0, 1}
  /\ ctorUrl \in {"", "chrome://newtab", "http://site"}
  /\ browser = "null"
  /\ puppeteerPage = 0
  /\ openPages = {}
  /\ state = build_initial_state(tabId, ctorUrl, "ctor")
  /\ pc = "idle"
  /\ op = [name |-> "none", ret |-> "none", useVision |-> FALSE, focus |-> -1,
           node |-> NoNode, target |-> NoNode, hasHandle |-> FALSE, attempts |-> <<>>,
           content |-> 0, shot |-> "null", px |-> <<0, 0>>,
           before |-> build_initial_state(tabId, ctorUrl, "ctor"),
           refresh |-> "none", failStep |-> "none",
           returned |-> "none", recoveries |-> 0,
           index |-> -1, text |-> <<>>, locateCalls |-> 0, evalCalls |-> 0, events |-> 0,
           live |-> "none", valueBefore |-> "-",
   prior |-> [selected |-> FALSE, index |-> -1, text |-> <<>>, events |-> 0,
              info |-> <<>>],
   polls |-> <<>>, elapsed |-> 0,
   keyParts |-> <<>>, keylog |-> <<>>, keyFail |-> "none",
   url |-> <<>>, navError |-> [timedOut |-> FALSE, message |-> <<>>],
   amount |-> [given |-> FALSE, val |-> 0], scrolls |-> <<>>, pageCalls |-> 0,
   el |-> NoEl, dyn |-> TRUE, selector |-> <<>>, queries |-> <<>>]
  /\ refreshNo = 0
  /\ result = Result("none", "", "", -1)
  /\ selValue = "va"
  /\ transport = [opens |-> "never", shims |-> "never", detached |-> FALSE,
                  shimmed |-> {}]
  /\ handed = [aliased |-> FALSE, seen |-> state]

\* ------------------------------------------------- attach / detach (page.ts)

\* Counting how often something happened, as "never", "once" or "more".
Once(n) == IF n = "never" THEN "once" ELSE "more"

\* attachPuppeteer(): false for an ineligible target, true without any transport
\* interaction when a document handle is held; else connect, keep the browser,
\* take the first page (the tab's own, which a connected browser reports),
\* install the shims. connect or the shim installation may reject.
Attach ==
  /\ pc = "idle"
  /\ op' = FreshOp("attach")
  /\ IF ~validWebPage
       THEN /\ result' = Result("false", "", "", -1)
            /\ UNCHANGED <<browser, puppeteerPage, openPages, transport>>
       ELSE IF puppeteerPage # 0
         THEN /\ result' = Result("true", "", "", -1)
              /\ UNCHANGED <<browser, puppeteerPage, openPages, transport>>
         ELSE \/ /\ result' = Result("raised", "connect", "", -1)
                 /\ UNCHANGED <<browser, puppeteerPage, openPages, transport>>
              \/ \E pages \in (SUBSET Handles) \ {{}}, shimsOk \in BOOLEAN :
                   /\ browser' = "open"
                   /\ openPages' = pages
                   /\ puppeteerPage' = Min(pages)
                   /\ transport' = [opens |-> Once(transport.opens),
                                    shims |-> IF shimsOk THEN Once(transport.shims)
                                                         ELSE transport.shims,
                                    shimmed |-> IF shimsOk
                                                  THEN transport.shimmed \cup {Min(pages)}
                                                  ELSE transport.shimmed,
                                    detached |-> FALSE]
                   /\ result' = IF shimsOk THEN Result("true", "", "", -1)
                                           ELSE Result("raised", "shims", "", -1)
  /\ UNCHANGED <<tabId, ctorUrl, state, pc, refreshNo, selValue, handed>>
  /\ UNCHANGED <<hashVars, netVars>>

KeepState(tab) == state

\* this._state = build_initial_state(this._tabId)
ResetState(tab) == build_initial_state(tab, "", "")

\* detachPuppeteer(): with a browser, disconnect, drop both references and reset
\* the state; a rejected disconnect leaves everything as it was; without a
\* browser nothing happens.
Detach ==
  /\ pc = "idle"
  /\ op' = [FreshOp("detach") EXCEPT !.before = state]
  /\ IF browser = "null"
       THEN /\ result' = Result("ok", "no transport", "", -1)
            /\ UNCHANGED <<browser, puppeteerPage, openPages, state, transport, handed>>
       ELSE \/ /\ result' = Result("raised", "disconnect", "", -1)
               /\ UNCHANGED <<browser, puppeteerPage, openPages, state, transport, handed>>
            \/ /\ browser' = "null"
               /\ puppeteerPage' = 0
               /\ openPages' = {}
               /\ state' = ResetState(tabId)
               /\ handed' = [aliased |-> FALSE, seen |-> ResetState(tabId)]
               /\ transport' = [opens |-> "never", shims |-> "never", detached |-> TRUE,
                                 shimmed |-> {}]
               /\ result' = Result("ok", "disconnected", "", -1)
  /\ UNCHANGED <<tabId, ctorUrl, pc, refreshNo, selValue>>
  /\ UNCHANGED <<hashVars, netVars>>

\* The browser closes a document handle (a tab is closed, navigation elsewhere).
\* Only the liveness probe and its recovery read the open handles, so a handle
\* closing while an operation runs is the same as its closing before it began.
PageCloses ==
  /\ browser = "open"
  /\ pc = "idle"
  /\ \E h \in openPages : openPages' = openPages \ {h}
  /\ UNCHANGED <<tabId, ctorUrl, browser, puppeteerPage, state, pc, op, refreshNo,
                 result, selValue, transport, handed>>
  /\ UNCHANGED <<hashVars, netVars>>


\* ------------------------------------------- getState / _updateState (page.ts)

\* Every operation leaves these alone.
ctlConst == <<tabId, ctorUrl, transport>>

\* _updateState returns the state object: to getState's caller, or back into
\* clickElementNode or inputTextElementNode.
EndRefresh(newState, outcome, step) ==
  /\ state' = newState
  /\ op' = [op EXCEPT !.refresh = outcome, !.failStep = step, !.returned = "this._state"]
  /\ IF op.ret = "getState"
       THEN /\ pc' = "idle"
            /\ result' = Result("ok", "", "", -1)
       ELSE /\ pc' = IF op.ret = "input" THEN "it_resolve" ELSE "ck_resolve"
            /\ UNCHANGED result

\* An error leaves the operation: getState lets it through; clickElementNode's
\* outer catch wraps it in `Failed to click element: ${tagName}[${highlightIndex}]`
\* built from the node the caller passed, inputTextElementNode's in `Failed to
\* input text into ${tagName}[${highlightIndex}]`.
Raise(reason) ==
  /\ pc' = "idle"
  /\ result' = IF op.name \in {"click", "input"}
                 THEN Result("raised", reason, op.node.tagName, op.node.highlightIndex)
                 ELSE Result("raised", reason, "", -1)

\* `return this._state`: what getState hands to its caller is the controller's
\* own state object, not a copy of it.
HandOver ==
  handed' = IF pc' = "idle" /\ op.ret = "getState" /\ result'.kind = "ok"
              THEN [aliased |-> TRUE, seen |-> state']
              ELSE handed

\* getState(): the placeholder for an ineligible target; else wait for the page
\* to settle and refresh the snapshot (useVision = true, focusElement = -1).
GetState ==
  /\ pc = "idle"
  /\ IF ~validWebPage
       THEN /\ op' = [FreshOp("getState") EXCEPT !.returned = "placeholder"]
            /\ result' = Result("ok", "", "", -1)
            /\ handed' = [aliased |-> FALSE, seen |-> build_initial_state(tabId, "", "")]
            /\ UNCHANGED <<pc, refreshNo>>
       ELSE /\ refreshNo < MaxRefresh
            /\ op' = [FreshOp("getState") EXCEPT !.ret = "getState", !.useVision = TRUE]
            /\ pc' = "gs_wait"
            /\ result' = Pending
            /\ UNCHANGED <<refreshNo, handed>>
  /\ UNCHANGED <<ctlConst, browser, puppeteerPage, openPages, state, selValue>>
  /\ UNCHANGED <<hashVars, netVars>>

\* await this.waitForPageAndFramesLoad(): swallows its own failures; then
\* _updateState begins.
GsWait ==
  /\ pc = "gs_wait"
  /\ pc' = "us_probe"
  /\ refreshNo' = refreshNo + 1
  /\ op' = [op EXCEPT !.before = state, !.refresh = "running"]
  /\ UNCHANGED <<ctlConst, handed, browser, puppeteerPage, openPages, state, result, selValue>>
  /\ UNCHANGED <<hashVars, netVars>>

KeepPage(pages) == puppeteerPage

\* this._puppeteerPage = pages[0]
AdoptPage(pages) == Min(pages)

\* The liveness probe evaluate('1'); on failure, with a browser, ask it for its
\* pages (which may itself reject) and adopt pages[0], or throw 'Browser
\* closed: no valid pages available'. op.recoveries counts the pages() calls.
UsProbe ==
  /\ pc = "us_probe"
  /\ \E probeOk \in {TRUE, FALSE} :
       /\ probeOk => (puppeteerPage # 0 /\ puppeteerPage \in openPages)
       /\ IF probeOk \/ browser = "null"
            THEN /\ pc' = "us_highlight"
                 /\ UNCHANGED <<puppeteerPage, op, result>>
            ELSE \/ /\ Raise("browser pages")
                    /\ op' = [op EXCEPT !.refresh = "fatal", !.failStep = "pages",
                                        !.recoveries = @ + 1]
                    /\ UNCHANGED puppeteerPage
                 \/ IF openPages # {}
                      THEN /\ puppeteerPage' = AdoptPage(openPages)
                           /\ pc' = "us_highlight"
                           /\ op' = [op EXCEPT !.recoveries = @ + 1]
                           /\ UNCHANGED result
                      ELSE /\ Raise("no valid pages")
                           /\ op' = [op EXCEPT !.refresh = "fatal", !.failStep = "probe",
                                               !.recoveries = @ + 1]
                           /\ UNCHANGED puppeteerPage
  /\ UNCHANGED <<ctlConst, browser, openPages, state, refreshNo, selValue>>
  /\ UNCHANGED <<hashVars, netVars>>
  /\ HandOver

\* await this.removeHighlight()
UsHighlight ==
  /\ pc = "us_highlight"
  /\ \/ /\ pc' = "us_extract"
        /\ UNCHANGED <<op, state, result>>
     \/ EndRefresh(state, "failed", "removeHighlight")
  /\ UNCHANGED <<ctlConst, browser, puppeteerPage, openPages, refreshNo, selValue>>
  /\ UNCHANGED <<hashVars, netVars>>
  /\ HandOver

\* const content = await this.getClickableElements(focusElement): a DOMState,
\* null, or a rejection.
UsExtract ==
  /\ pc = "us_extract"
  /\ \/ \E d \in Docs :
          /\ op' = [op EXCEPT !.content = d]
          /\ pc' = IF op.useVision THEN "us_screenshot" ELSE "us_scroll"
          /\ UNCHANGED <<state, result>>
     \/ EndRefresh(state, "failed", "extract null")
     \/ EndRefresh(state, "failed", "extract")
  /\ UNCHANGED <<ctlConst, browser, puppeteerPage, openPages, refreshNo, selValue>>
  /\ UNCHANGED <<hashVars, netVars>>
  /\ HandOver

\* const screenshot = useVision ? await this.takeScreenshot() : null
UsScreenshot ==
  /\ pc = "us_screenshot"
  /\ \/ /\ puppeteerPage # 0
        /\ op' = [op EXCEPT !.shot = "jpeg"]
        /\ pc' = "us_scroll"
        /\ UNCHANGED <<state, result>>
     \/ EndRefresh(state, "failed", "screenshot")
  /\ UNCHANGED <<ctlConst, browser, puppeteerPage, openPages, refreshNo, selValue>>
  /\ UNCHANGED <<hashVars, netVars>>
  /\ HandOver

WriteTreeOnly(st, g, d, url) ==
  [st EXCEPT !.elementTree = [gen |-> g, doc |-> d]]

\* this._state.elementTree = ...; this._state.selectorMap = ...;
\* this._state.url = this._puppeteerPage?.url() || '';  -- then title() is awaited
WriteSnapshot(st, g, d, url) ==
  [st EXCEPT !.elementTree = [gen |-> g, doc |-> d],
             !.selectorMap = [gen |-> g, doc |-> d],
             !.url = Field(g, url)]

\* this._state.title = ...; .screenshot = ...; .pixelsAbove = ...; .pixelsBelow = ...
WriteRest(st, g, title, shot, px) ==
  [st EXCEPT !.title = Field(g, title),
             !.screenshot = Field(g, shot),
             !.pixelsAbove = Field(g, px[1]),
             !.pixelsBelow = Field(g, px[2])]

ScrollInfos == {<<7, 9>>}

\* const [pixelsAbove, pixelsBelow] = await this.getScrollInfo(); then the first
\* three fields are assigned and title() is awaited.
UsScroll ==
  /\ pc = "us_scroll"
  /\ \/ \E px \in ScrollInfos :
          /\ op' = [op EXCEPT !.px = px]
          /\ state' = WriteSnapshot(state, refreshNo, op.content,
                                    IF puppeteerPage # 0 THEN "page" ELSE "")
          /\ pc' = "us_title"
          /\ UNCHANGED result
     \/ EndRefresh(state, "failed", "scrollInfo")
  /\ UNCHANGED <<ctlConst, browser, puppeteerPage, openPages, refreshNo, selValue>>
  /\ UNCHANGED <<hashVars, netVars>>
  /\ HandOver

\* (await this._puppeteerPage?.title()) || '' resolves and the remaining fields
\* are assigned, or it rejects and the catch returns this._state.
UsTitle ==
  /\ pc = "us_title"
  /\ \/ EndRefresh(WriteRest(state, refreshNo,
                             IF puppeteerPage # 0 THEN "page title" ELSE "",
                             op.shot, op.px), "ok", "none")
     \/ /\ puppeteerPage # 0
        /\ EndRefresh(state, "failed", "title")
  /\ UNCHANGED <<ctlConst, browser, puppeteerPage, openPages, refreshNo, selValue>>
  /\ UNCHANGED <<hashVars, netVars>>
  /\ HandOver


\* ------------------------------------------------ clickElementNode (page.ts)

\* The nodes a caller may hold: any node of any snapshot it was ever given.
CallerNodes == UNION {Range(DocNodes(d)) : d \in Docs}

\* The click strategies in the order the method's text tries them.
Ladder == <<"native", "script", "viewport", "page", "host">>

Rank(s) == CHOOSE i \in DOMAIN Ladder : Ladder[i] = s

AppliesWithoutHandle(s, t, hasHandle) ==
  CASE s = "viewport" -> t.vp # NoPt
    [] s = "page" -> t.pg # NoPt
    [] OTHER -> TRUE

\* Whether the method attempts strategy s at all: the handle strategies need
\* the located handle, the coordinate strategies the cached center.
Applies(s, t, hasHandle) ==
  CASE s = "native" -> hasHandle
    [] s = "script" -> hasHandle
    [] s = "viewport" -> t.vp # NoPt
    [] s = "page" -> t.pg # NoPt
    [] OTHER -> TRUE

NextStrategyPageFirst(after, t, hasHandle) ==
  LET order == <<"native", "script", "page", "viewport", "host">>
      pos == IF after = 0 THEN 0 ELSE CHOOSE i \in 1..5 : order[i] = Ladder[after]
      later == {i \in 1..5 : i > pos /\ Applies(order[i], t, hasHandle)}
  IN  Rank(order[Min(later)])

\* The strategy attempted after strategy number `after` failed (0: after
\* locateElement returned): the next one of the ladder that applies.
NextStrategy(after, t, hasHandle) ==
  Min({i \in DOMAIN Ladder : i > after /\ Applies(Ladder[i], t, hasHandle)})

\* viewportX = x - (viewportInfo?.scrollX ?? 0); viewportY = y - (scrollY ?? 0)
PagePoint(t) ==
  LET sx == IF t.scroll = NoPt THEN 0 ELSE t.scroll[1]
      sy == IF t.scroll = NoPt THEN 0 ELSE t.scroll[2]
  IN  <<t.pg[1] - sx, t.pg[2] - sy>>

\* Where strategy s of the ladder aims the mouse (NoPt: it uses no coordinates).
AimOf(s, t) ==
  CASE s = "viewport" -> t.vp
    [] s = "page" -> PagePoint(t)
    [] OTHER -> NoPt

Attempt(s, ok, pt) == [strategy |-> s, ok |-> ok, at |-> pt]

\* clickElementNode(useVision, elementNode): not connected raises at once; a
\* node with a highlightIndex is refreshed first (focused on its index).
ClickStart ==
  /\ pc = "idle"
  /\ \E n \in CallerNodes, uv \in BOOLEAN :
       IF puppeteerPage = 0
         THEN /\ op' = [FreshOp("click") EXCEPT !.node = n, !.target = n, !.useVision = uv]
              /\ result' = Result("raised", "not connected", "", -1)
              /\ UNCHANGED <<pc, refreshNo>>
         ELSE IF n.highlightIndex # -1
           THEN /\ refreshNo < MaxRefresh
                /\ refreshNo' = refreshNo + 1
                /\ op' = [FreshOp("click") EXCEPT !.node = n, !.target = n, !.useVision = uv,
                                                  !.ret = "click", !.focus = n.highlightIndex,
                                                  !.refresh = "running"]
                /\ pc' = "us_probe"
                /\ result' = Pending
           ELSE /\ op' = [FreshOp("click") EXCEPT !.node = n, !.target = n, !.useVision = uv]
                /\ pc' = "ck_locate"
                /\ result' = Pending
                /\ UNCHANGED refreshNo
  /\ UNCHANGED <<ctlConst, handed, browser, puppeteerPage, openPages, state, selValue>>
  /\ UNCHANGED <<hashVars, netVars>>

\* const freshElement = this._state.selectorMap.get(elementNode.highlightIndex);
\* if (freshElement) targetElement = freshElement;
ClickResolve ==
  /\ pc = "ck_resolve"
  /\ LET fresh == MapGet(state.selectorMap, op.node.highlightIndex) IN
       op' = [op EXCEPT !.target = IF fresh # NoNode THEN fresh ELSE op.node]
  /\ pc' = "ck_locate"
  /\ UNCHANGED <<ctlConst, handed, browser, puppeteerPage, openPages, state, refreshNo,
                 result, selValue>>
  /\ UNCHANGED <<hashVars, netVars>>

\* const element = await this.locateElement(targetElement): a handle or null.
\* The nodes of the model have no iframe ancestor, so every lookup locateElement
\* makes is inside one of its try blocks and it cannot reject.
\* With a handle, _scrollIntoViewIfNeeded(element) is awaited next.
ClickLocate ==
  /\ pc = "ck_locate"
  /\ \E found \in BOOLEAN :
       /\ op' = [op EXCEPT !.hasHandle = found, !.locateCalls = @ + 1]
       /\ pc' = IF found THEN "ck_stabilize" ELSE "ck_try"
  /\ UNCHANGED <<ctlConst, handed, browser, puppeteerPage, openPages, state, refreshNo,
                 result, selValue>>
  /\ UNCHANGED <<hashVars, netVars>>

\* await this._scrollIntoViewIfNeeded(element), outside the inner try blocks:
\* its timeout or a failed evaluate goes straight to the outer catch.
ClickStabilize ==
  /\ pc = "ck_stabilize"
  /\ \/ /\ pc' = "ck_try"
        /\ UNCHANGED <<op, result>>
     \/ /\ Raise("scroll into view")
        /\ UNCHANGED op
  /\ UNCHANGED <<ctlConst, handed, browser, puppeteerPage, openPages, state, refreshNo, selValue>>
  /\ UNCHANGED <<hashVars, netVars>>

\* The strategy now due: the one after the last attempt, or the first that
\* applies when nothing was attempted yet.
Due == NextStrategy(IF op.attempts = <<>> THEN 0
                    ELSE Rank(op.attempts[Len(op.attempts)].strategy),
                    op.target, op.hasHandle)

\* One strategy of the ladder runs: success returns, failure goes on to the
\* next; when the host-scripting lookup fails too the method throws
\* `All click attempts failed ...`, which the outer catch wraps.
ClickTry ==
  /\ pc = "ck_try"
  /\ \E ok \in BOOLEAN :
       /\ op' = [op EXCEPT !.attempts = Append(@, Attempt(Ladder[Due], ok, AimOf(Ladder[Due], op.target)))]
       /\ IF ok
            THEN /\ pc' = "idle"
                 /\ result' = Result("ok", Ladder[Due], "", -1)
            ELSE IF Ladder[Due] = "host"
              THEN Raise("all click attempts failed")
              ELSE /\ pc' = "ck_try"
                   /\ UNCHANGED result
  /\ UNCHANGED <<ctlConst, handed, browser, puppeteerPage, openPages, state, refreshNo, selValue>>
  /\ UNCHANGED <<hashVars, netVars>>


\* --------------------------------------------- selectDropdownOption (page.ts)

\* String.prototype.toLowerCase on the tag names, url pieces and header values
\* of the model.
ToLower(tag) ==
  CASE tag = "SELECT" -> "select"
    [] tag = "DIV" -> "div"
    [] tag = "DoubleClick" -> "doubleclick"
    [] tag = "VIDEO" -> "video"
    [] tag = "MP4" -> "mp4"
    [] tag = "Text/HTML" -> "text/html"
    [] OTHER -> tag

IsSelectTagUnchecked(tag) == TRUE

\* element.tagName?.toLowerCase() === 'select'  (null?.toLowerCase() is undefined)
IsSelectTag(tag) == tag # "NULL" /\ ToLower(tag) = "select"

\* The options of the live select control: text as written in the page, value.
Options == << [text |-> <<" ", "S">>, value |-> "va"],
              [text |-> <<"M", " ">>, value |-> "vb"] >>

\* String.prototype.trim: leading and trailing blanks removed.
RECURSIVE TrimLeft(_)
TrimLeft(t) == IF t # <<>> /\ Head(t) = " " THEN TrimLeft(Tail(t)) ELSE t

RECURSIVE TrimRight(_)
TrimRight(t) ==
  IF t # <<>> /\ t[Len(t)] = " " THEN TrimRight(SubSeq(t, 1, Len(t) - 1)) ELSE t

Trim(t) == TrimRight(TrimLeft(t))

FindOptionUntrimmed(text) ==
  LET hits == {i \in DOMAIN Options : Options[i].text = text}
  IN  IF hits = {} THEN 0 ELSE CHOOSE i \in hits : \A j \in hits : i <= j

\* options.find(opt => opt.text.trim() === optionText): its position, 0 if none.
FindOption(text) ==
  LET hits == {i \in DOMAIN Options : Trim(Options[i].text) = text}
  IN  IF hits = {} THEN 0 ELSE Min(hits)

\* options.map(o => o.text.trim())
AvailableOptions == [i \in DOMAIN Options |-> Trim(Options[i].text)]

\* The texts a caller asks for.
Texts == {<<"S">>, <<"M">>, <<"L">>, <<" ", "S">>}

Indices == {0, 1, 2, 3}

\* What the call before this one did, when it was a selectDropdownOption that
\* selected an option: its arguments, the events it dispatched, its message.
PriorSelect ==
  IF op.name = "select" /\ result.reason = "selected"
    THEN [selected |-> TRUE, index |-> op.index, text |-> op.text,
          events |-> op.events, info |-> result.info]
    ELSE FreshOp("select").prior

DispatchedAlways(previousValue, value) == 2

\* if (previousValue !== option.value) { dispatch change; dispatch input }
Dispatched(previousValue, value) == IF previousValue # value THEN 2 ELSE 0

\* selectDropdownOption(index, text) up to the tag check: a missing element or
\* a missing connection raises, a tag other than select raises, and only then
\* is the element located.
SelectStart ==
  /\ pc = "idle"
  /\ \E index \in Indices, text \in Texts :
       LET element == MapGet(state.selectorMap, index)
           me == [FreshOp("select") EXCEPT !.index = index, !.text = text,
                                           !.target = element, !.prior = PriorSelect]
       IN  /\ op' = me
           /\ IF element = NoNode \/ puppeteerPage = 0
                THEN /\ result' = Result("raised", "element not found or not connected", "", index)
                     /\ pc' = "idle"
                ELSE IF ~IsSelectTag(element.tagName)
                  THEN /\ result' = Result("raised", "tag mismatch", element.tagName, index)
                       /\ pc' = "idle"
                  ELSE /\ result' = Pending
                       /\ pc' = "sel_locate"
  /\ UNCHANGED <<ctlConst, handed, browser, puppeteerPage, openPages, state, refreshNo, selValue>>
  /\ UNCHANGED <<hashVars, netVars>>

\* const elementHandle = await this.locateElement(element); null throws
\* `Dropdown element with index ${index} not found`.
SelectLocate ==
  /\ pc = "sel_locate"
  /\ \E found \in BOOLEAN :
       /\ op' = [op EXCEPT !.hasHandle = found, !.locateCalls = @ + 1]
       /\ IF found
            THEN /\ pc' = "sel_eval"
                 /\ UNCHANGED result
            ELSE /\ pc' = "idle"
                 /\ result' = Result("raised", "dropdown element not found", "", op.index)
  /\ UNCHANGED <<ctlConst, handed, browser, puppeteerPage, openPages, state, refreshNo, selValue>>
  /\ UNCHANGED <<hashVars, netVars>>

\* elementHandle.evaluate(...): the script runs in the page, or the call rejects.
\* In the page: not an HTMLSelectElement, no option with that text, or the
\* option is selected and change and input are dispatched if the value changed.
\* op.live is what the script found the element to be ("none": it never ran to
\* its end), op.valueBefore the control's value when the call was made.
SelectEvaluate ==
  /\ pc = "sel_eval"
  /\ pc' = "idle"
  /\ \/ /\ result' = Result("raised", "evaluate", "", op.index)
        /\ op' = [op EXCEPT !.evalCalls = @ + 1, !.valueBefore = selValue]
        /\ UNCHANGED selValue
     \/ /\ result' = ResultInfo("returned", "not a select", "", op.index, <<>>)
        /\ op' = [op EXCEPT !.evalCalls = @ + 1, !.valueBefore = selValue,
                            !.live = "other"]
        /\ UNCHANGED selValue
     \/ LET o == FindOption(op.text) IN
          IF o = 0
            THEN /\ result' = ResultInfo("returned", "option not found", "", op.index,
                                         AvailableOptions)
                 /\ op' = [op EXCEPT !.evalCalls = @ + 1, !.valueBefore = selValue,
                                     !.live = "select"]
                 /\ UNCHANGED selValue
            ELSE /\ selValue' = Options[o].value
                 /\ op' = [op EXCEPT !.evalCalls = @ + 1, !.valueBefore = selValue,
                                     !.live = "select",
                                     !.events = Dispatched(selValue, Options[o].value)]
                 /\ result' = ResultInfo("returned", "selected", "", op.index,
                                         <<op.text, Options[o].value>>)
  /\ UNCHANGED <<ctlConst, handed, browser, puppeteerPage, openPages, state, refreshNo>>
  /\ UNCHANGED <<hashVars, netVars>>


\* ------------------------------------------------------- sendKeys (page.ts)

\* keys.split('+'): a text is its pieces in order, "+" being the separator;
\* an empty text splits into one empty part.
RECURSIVE Split(_)
Split(keys) ==
  IF keys = <<>> THEN <<"">>
  ELSE LET rest == Split(Tail(keys))
       IN  IF Head(keys) = "+" THEN <<"">> \o rest
           ELSE <<Head(keys) \o Head(rest)>> \o Tail(rest)

\* The combinations sendKeys is called with.
Combos ==
  { <<"Control", "+", "Shift", "+", "a">>,
    <<" shift ", "+", "Enter">>,
    <<"ALT", "+">>,
    <<"F", "5">> }

\* key.trim().toLowerCase()
TrimLower(key) ==
  CASE key = "Control" -> "control"
    [] key = "Shift"   -> "shift"
    [] key = " shift " -> "shift"
    [] key = "ALT"     -> "alt"
    [] key = "Enter"   -> "enter"
    [] key = "F5"      -> "f5"
    [] OTHER           -> key

\* The entries of keyMap that the combinations reach.
keyMap ==
  [k \in {"a", "control", "shift", "alt", "enter"} |->
     CASE k = "a"       -> "KeyA"
       [] k = "control" -> "Control"
       [] k = "shift"   -> "Shift"
       [] k = "alt"     -> "Alt"
       [] k = "enter"   -> "Enter"]

\* _convertKey(key): keyMap[lowerKey] || key
convertKey(key) ==
  LET lowerKey == TrimLower(key)
  IN  IF lowerKey \in DOMAIN keyMap THEN keyMap[lowerKey] ELSE key

\* keyParts.slice(0, -1) and keyParts[keyParts.length - 1]
Modifiers(keyParts) == SubSeq(keyParts, 1, Len(keyParts) - 1)

MainKey(keyParts) == keyParts[Len(keyParts)]

SameOrder(s) == s

\* [...modifiers].reverse()
Reverse(s) == [i \in 1..Len(s) |-> s[Len(s) + 1 - i]]

\* One keyboard call made by sendKeys and whether it resolved.
KeyEvent(kind, key, ok) == [kind |-> kind, key |-> key, ok |-> ok]

KeysOfKind(kind) == SelectSeq(op.keylog, LAMBDA e : e.kind = kind)

\* sendKeys(keys) up to the try block: without a document handle it throws
\* 'Puppeteer page is not connected' before any key is touched.
SendKeys ==
  /\ pc = "idle"
  /\ \E keys \in Combos :
       /\ op' = [FreshOp("sendKeys") EXCEPT !.keyParts = Split(keys)]
       /\ IF puppeteerPage = 0
            THEN /\ result' = Result("raised", "not connected", "", -1)
                 /\ pc' = "idle"
            ELSE /\ result' = Pending
                 /\ pc' = "sk_try"
  /\ UNCHANGED <<ctlConst, handed, browser, puppeteerPage, openPages, state, refreshNo, selValue>>
  /\ UNCHANGED <<hashVars, netVars>>

\* for (const modifier of modifiers) await keyboard.down(_convertKey(modifier));
\* a rejection leaves the try block for catch and finally.
SkDown ==
  /\ pc = "sk_try"
  /\ Len(KeysOfKind("down")) < Len(Modifiers(op.keyParts))
  /\ \E ok \in BOOLEAN :
       LET modifier == Modifiers(op.keyParts)[Len(KeysOfKind("down")) + 1]
       IN  /\ op' = [op EXCEPT !.keylog = Append(@, KeyEvent("down", convertKey(modifier), ok)),
                               !.keyFail = IF ok THEN @ ELSE "down"]
           /\ pc' = IF ok THEN "sk_try" ELSE "sk_finally"
  /\ UNCHANGED <<ctlConst, handed, browser, puppeteerPage, openPages, state, refreshNo, selValue, result>>
  /\ UNCHANGED <<hashVars, netVars>>

\* await Promise.all([keyboard.press(_convertKey(mainKey)),
\* waitForPageAndFramesLoad()]): a rejected press rejects the whole at once,
\* a resolved one leaves the settle wait to be awaited.
SkPress ==
  /\ pc = "sk_try"
  /\ Len(KeysOfKind("down")) = Len(Modifiers(op.keyParts))
  /\ \E ok \in BOOLEAN :
       /\ op' = [op EXCEPT !.keylog = Append(@, KeyEvent("press", convertKey(MainKey(op.keyParts)), ok)),
                           !.keyFail = IF ok THEN @ ELSE "press"]
       /\ pc' = IF ok THEN "sk_settle" ELSE "sk_finally"
  /\ UNCHANGED <<ctlConst, handed, browser, puppeteerPage, openPages, state, refreshNo, selValue, result>>
  /\ UNCHANGED <<hashVars, netVars>>

\* The settle wait returns: waitForPageAndFramesLoad() catches what the
\* network wait throws and has no rejection of its own, so the try block ends
\* normally.
SkSettle ==
  /\ pc = "sk_settle"
  /\ pc' = "sk_finally"
  /\ UNCHANGED <<ctlConst, handed, browser, puppeteerPage, openPages, state, refreshNo, selValue, result, op>>
  /\ UNCHANGED <<hashVars, netVars>>

\* finally: for (const modifier of [...modifiers].reverse()) try { await
\* keyboard.up(_convertKey(modifier)) } catch { log }.
SkUp ==
  /\ pc = "sk_finally"
  /\ Len(KeysOfKind("up")) < Len(Modifiers(op.keyParts))
  /\ \E ok \in BOOLEAN :
       LET modifier == Reverse(Modifiers(op.keyParts))[Len(KeysOfKind("up")) + 1]
       IN  op' = [op EXCEPT !.keylog = Append(@, KeyEvent("up", convertKey(modifier), ok))]
  /\ UNCHANGED <<ctlConst, handed, browser, puppeteerPage, openPages, state, refreshNo, selValue, result, pc>>
  /\ UNCHANGED <<hashVars, netVars>>

\* The finally block is through: what catch threw ('Failed to send keys: ...')
\* reaches the caller, else sendKeys resolves.
SkReturn ==
  /\ pc = "sk_finally"
  /\ Len(KeysOfKind("up")) = Len(Modifiers(op.keyParts))
  /\ pc' = "idle"
  /\ result' = IF op.keyFail = "none" THEN Result("ok", "", "", -1)
               ELSE Result("raised", "send keys", op.keyFail, -1)
  /\ UNCHANGED <<ctlConst, handed, browser, puppeteerPage, openPages, state, refreshNo, selValue, op>>
  /\ UNCHANGED <<hashVars, netVars>>

\* ------------------------------- _waitForStableNetwork, waitForPageAndFramesLoad

\* A string is the sequence of its pieces; the patterns the code looks for are
\* single pieces. String.prototype.includes and startsWith on such strings:
Includes(str, piece) == \E i \in DOMAIN str : str[i] = piece
StartsWith(str, piece) == str # <<>> /\ str[1] = piece
LowerAll(str) == [i \in DOMAIN str |-> ToLower(str[i])]

RELEVANT_RESOURCE_TYPES == {"document", "stylesheet", "image", "font", "script", "iframe"}

RELEVANT_CONTENT_TYPES ==
  {"text/html", "text/css", "application/javascript", "image/", "font/", "application/json"}

IGNORED_URL_PATTERNS ==
  {"analytics", "tracking", "telemetry", "beacon", "metrics",
   "doubleclick", "adsystem", "adserver", "advertising",
   "facebook.com/plugins", "platform.twitter", "linkedin.com/embed",
   "livechat", "zendesk", "intercom", "crisp.chat", "hotjar",
   "push-notifications", "onesignal", "pushwoosh",
   "heartbeat", "ping", "alive", "webrtc", "rtmp://", "wss://",
   "cloudfront.net", "fastly.net"}

\* ['websocket', 'media', 'eventsource', 'manifest', 'other']
REALTIME_RESOURCE_TYPES == {"websocket", "media", "eventsource", "manifest", "other"}

\* ['streaming', 'video', 'audio', 'webm', 'mp4', 'event-stream', 'websocket', 'protobuf']
STREAMING_CONTENT == {"streaming", "video", "audio", "webm", "mp4", "event-stream",
                      "websocket", "protobuf"}

\* An HTTPRequest: resourceType(), url(), headers()['purpose'] and
\* headers()['sec-fetch-dest'] ("" = the header is absent).
Request(rtype, url, purpose, dest) ==
  [rtype |-> rtype, url |-> url, purpose |-> purpose, dest |-> dest]

\* The requests the page may issue.
Reqs ==
  { Request("document", <<"https://", "site", "/">>, "", "document"),
    Request("image", <<"https://", "site", "/logo">>, "", "image"),
    Request("script", <<"https://", "ads.", "DoubleClick", ".net">>, "", "script"),
    Request("media", <<"https://", "site", "/clip">>, "", "video"),
    Request("image", <<"data:", "image/png">>, "", "image"),
    Request("document", <<"https://", "site", "/next">>, "prefetch", "document"),
    Request("image", <<"https://", "site", "/poster">>, "", "video") }

NoReq == Request("none", <<>>, "", "")

\* An HTTPResponse's headers: content-type as sent, content-length ("" = absent).
Response(ctype, clen) == [ctype |-> ctype, clen |-> clen]

\* The responses a server may send.
Resps ==
  { Response(<<"Text/HTML">>, ""),
    Response(<<"VIDEO", "/", "MP4">>, "10"),
    Response(<<"application/octet-stream">>, "10"),
    Response(<<"image/", "png">>, "5242881"),
    Response(<<"image/", "png">>, "5242880"),
    Response(<<>>, "10") }

NoResp == Response(<<>>, "")

\* Number.parseInt on the content-length values of the model.
ParseInt(str) ==
  CASE str = "10" -> 10
    [] str = "5242880" -> 5242880
    [] str = "5242881" -> 5242881

RawUrl(r) == r.url

\* const url = request.url().toLowerCase()
LowerUrl(r) == LowerAll(r.url)

\* onRequest's filters, in the order of its early returns: true when the request
\* reaches pendingRequests.add.
Tracked(r) ==
  IF r.rtype \notin RELEVANT_RESOURCE_TYPES THEN FALSE
  ELSE IF r.rtype \in REALTIME_RESOURCE_TYPES THEN FALSE
  ELSE IF \E pattern \in IGNORED_URL_PATTERNS : Includes(LowerUrl(r), pattern) THEN FALSE
  ELSE IF StartsWith(LowerUrl(r), "data:") \/ StartsWith(LowerUrl(r), "blob:") THEN FALSE
  ELSE IF r.purpose = "prefetch" \/ r.dest = "video" \/ r.dest = "audio" THEN FALSE
  ELSE TRUE

\* response.headers()['content-type']?.toLowerCase() || ''
ContentType(p) == LowerAll(p.ctype)

TooLargeNever(p) == FALSE

\* contentLength && Number.parseInt(contentLength) > 5 * 1024 * 1024
TooLarge(p) == p.clen # "" /\ ParseInt(p.clen) > 5 * 1024 * 1024

\* onResponse's filters for a pending request: true when the response reaches
\* the final `lastActivity = Date.now()`.
Settles(p) ==
  IF \E t \in STREAMING_CONTENT : Includes(ContentType(p), t) THEN FALSE
  ELSE IF ~(\E ct \in RELEVANT_CONTENT_TYPES : Includes(ContentType(p), ct)) THEN FALSE
  ELSE IF TooLarge(p) THEN FALSE
  ELSE TRUE

\* A network event, when it came, with pendingRequests and lastActivity as it
\* found them.
NetEvent(kind, r, p) ==
  [kind |-> kind, req |-> r, resp |-> p, at |-> clock,
   pendingBefore |-> pendingRequests, activityBefore |-> lastActivity]

\* waitForPageAndFramesLoad() is called: its startTime is taken and
\* _waitForStableNetwork begins. Without a document handle that throws at once,
\* which the caller swallows; else the set and lastActivity are initialised,
\* the listeners attached and the loop's startTime taken, all in one instant.
\* The wait is the controller's one operation in flight until it returns.
WaitBegins ==
  /\ startTime' = clock
  /\ lastPoll' = clock
  /\ IF puppeteerPage = 0
       THEN /\ netPc' = "minwait"
            /\ netLog' = Append(netLog, "page load failed")
            /\ UNCHANGED <<pendingRequests, lastActivity>>
       ELSE /\ netPc' = "polling"
            /\ pendingRequests' = {}
            /\ lastActivity' = clock
            /\ UNCHANGED netLog
  /\ UNCHANGED <<clock, netEv>>

NetStart ==
  /\ netPc = "off"
  /\ pc = "idle"
  /\ pc' = "net_wait"
  /\ WaitBegins
  /\ UNCHANGED <<ctlConst, handed, browser, puppeteerPage, openPages, state, op, refreshNo,
                 result, selValue>>
  /\ UNCHANGED hashVars

\* Time passes while the wait runs: one polling interval, at the end of which
\* the loop's timer is due; the loop has run for the interval before.
Tick ==
  /\ netPc \in {"polling", "minwait"}
  /\ netPc = "polling" => lastPoll = clock
  /\ clock < MaxClock
  /\ clock' = clock + 1
  /\ UNCHANGED <<netPc, pendingRequests, lastActivity, startTime, lastPoll, netEv, netLog>>
  /\ UNCHANGED <<hashVars, ctlVars>>

\* onRequest(request) for a request the page has just issued.
OnRequest(r) ==
  /\ netPc = "polling"
  /\ r \notin pendingRequests
  /\ netEv' = NetEvent("request", r, NoResp)
  /\ IF Tracked(r)
       THEN /\ pendingRequests' = pendingRequests \cup {r}
            /\ lastActivity' = clock
       ELSE UNCHANGED <<pendingRequests, lastActivity>>
  /\ UNCHANGED <<netPc, clock, startTime, lastPoll, netLog>>
  /\ UNCHANGED <<hashVars, ctlVars>>

\* onResponse(response) for the response p to request r.
OnResponse(r, p) ==
  /\ netPc = "polling"
  /\ netEv' = NetEvent("response", r, p)
  /\ IF r \notin pendingRequests
       THEN UNCHANGED <<pendingRequests, lastActivity>>
       ELSE /\ pendingRequests' = pendingRequests \ {r}
            /\ IF Settles(p) THEN lastActivity' = clock ELSE UNCHANGED lastActivity
  /\ UNCHANGED <<netPc, clock, startTime, lastPoll, netLog>>
  /\ UNCHANGED <<hashVars, ctlVars>>

\* A pending request fails without a response (the connection is refused, the
\* request is aborted). The monitor subscribes to 'request' and 'response'
\* only, so none of its handlers runs.
RequestFailed(r) ==
  /\ netPc = "polling"
  /\ r \in pendingRequests
  /\ netEv' = NetEvent("requestfailed", r, NoResp)
  /\ UNCHANGED <<netPc, clock, pendingRequests, lastActivity, startTime, lastPoll, netLog>>
  /\ UNCHANGED <<hashVars, ctlVars>>

GaveUpNever(now) == FALSE

\* elapsedTime > this._config.maximumWaitPageLoadTime
GaveUp(now) == now - startTime > MaxWait

\* pendingRequests.size === 0 && timeSinceLastActivity >= waitForNetworkIdlePageLoadTime
Stable(now) == pendingRequests = {} /\ now - lastActivity >= IdleWindow

\* The loop's 100 ms timer fires: break when stable, break with the timeout
\* message when the maximum wait is exceeded, else go round again. After either
\* break the listeners are removed and the closing message is written.
Poll ==
  /\ netPc = "polling"
  /\ clock > lastPoll
  /\ lastPoll' = clock
  /\ IF Stable(clock)
       THEN /\ netPc' = "minwait"
            /\ netLog' = Append(netLog, "Network stabilized")
       ELSE IF GaveUp(clock)
         THEN /\ netPc' = "minwait"
              /\ netLog' = Append(Append(netLog, "Network timeout"), "Network stabilized")
         ELSE UNCHANGED <<netPc, netLog>>
  /\ UNCHANGED <<clock, pendingRequests, lastActivity, startTime, netEv>>
  /\ UNCHANGED <<hashVars, ctlVars>>

\* remaining = Math.max(minWaitTime - elapsed, 0): the sleep, if any, is over
\* and waitForPageAndFramesLoad returns.
WaitReturn ==
  /\ netPc = "minwait"
  /\ clock - startTime >= MinWait
  /\ netPc' = "returned"
  /\ pc' = "idle"
  /\ UNCHANGED <<clock, pendingRequests, lastActivity, startTime, lastPoll, netEv, netLog>>
  /\ UNCHANGED <<ctlConst, handed, browser, puppeteerPage, openPages, state, op, refreshNo,
                 result, selValue>>
  /\ UNCHANGED hashVars

\* ------------------- navigateTo / refreshPage / goBack / goForward (page.ts)

NavVerbs == {"navigateTo", "refreshPage", "goBack", "goForward"}

\* What the navigation call of a verb can reject with, each with its message
\* and whether it is a timed-out wait: the navigation timeout, or a failure of
\* the navigation itself, whose message for goto(url) ends in ' at ' and the
\* url.
NavErrors(verb, url) ==
  { [timedOut |-> TRUE,
     message |-> <<"Navigation ", "timeout", " of 30000 ms exceeded">>],
    [timedOut |-> FALSE,
     message |-> IF verb = "navigateTo"
                   THEN <<"net::ERR_NAME_NOT_RESOLVED", " at ">> \o url
                   ELSE <<"Navigating frame was detached">>] }

\* error instanceof Error && error.message.includes('timeout')
IsTimeoutMessage(error) == Includes(error.message, "timeout")

\* The verb up to its try block: without a document handle it returns at once.
\* navigateTo is called with a url, given as pieces of text.
NavStart ==
  /\ pc = "idle"
  /\ \E verb \in NavVerbs :
       \E url \in (IF verb = "navigateTo"
                     THEN { <<"http://site/">>, <<"http://site/", "timeout", "-help">> }
                     ELSE {<<>>}) :
         /\ op' = [FreshOp(verb) EXCEPT !.url = url,
                                        !.pageCalls = IF puppeteerPage = 0 THEN 0 ELSE 1]
         /\ IF puppeteerPage = 0
              THEN /\ result' = Result("ok", "no page", "", -1)
                   /\ pc' = "idle"
              ELSE /\ result' = Pending
                   /\ pc' = "nav_run"
  /\ UNCHANGED <<ctlConst, handed, browser, puppeteerPage, openPages, state, refreshNo, selValue>>
  /\ UNCHANGED <<hashVars, netVars>>

\* await Promise.all([waitForPageAndFramesLoad(), <navigation call>]) ends:
\* both resolved (the wait has no rejection of its own), or the navigation
\* call rejected and catch either logs a warning or throws the error on.
NavEnd ==
  /\ pc = "nav_run"
  /\ pc' = "idle"
  /\ \/ /\ result' = Result("ok", "complete", "", -1)
        /\ op' = op
     \/ \E error \in NavErrors(op.name, op.url) :
          /\ op' = [op EXCEPT !.navError = error]
          /\ result' = IF IsTimeoutMessage(error)
                         THEN Result("ok", "timeout logged", "", -1)
                         ELSE Result("raised", "navigation", "", -1)
  /\ UNCHANGED <<ctlConst, handed, browser, puppeteerPage, openPages, state, refreshNo, selValue>>
  /\ UNCHANGED <<hashVars, netVars>>

\* The same verbs with the page-settle wait they start running beside the
\* navigation call. Promise.all([waitForPageAndFramesLoad(), <navigation
\* call>]) is entered: the wait begins (its listeners are attached) and the
\* navigation call is issued.
NavWaitStart ==
  /\ pc = "idle"
  /\ netPc = "off"
  /\ \E verb \in NavVerbs :
       /\ op' = [FreshOp(verb) EXCEPT !.url = IF verb = "navigateTo" THEN <<"http://site/">>
                                                                     ELSE <<>>,
                                      !.pageCalls = IF puppeteerPage = 0 THEN 0 ELSE 1]
       /\ IF puppeteerPage = 0
            THEN /\ result' = Result("ok", "no page", "", -1)
                 /\ pc' = "idle"
                 /\ UNCHANGED netVars
            ELSE /\ result' = Pending
                 /\ pc' = "nav_both"
                 /\ WaitBegins
  /\ UNCHANGED <<ctlConst, handed, browser, puppeteerPage, openPages, state, refreshNo, selValue>>
  /\ UNCHANGED hashVars

\* The navigation call settles while the wait may still be polling. Resolved:
\* Promise.all goes on waiting for the wait. Rejected: Promise.all rejects at
\* once, and the catch logs the timeout or throws the error on; the wait is
\* not told.
NavCallSettles ==
  /\ pc = "nav_both"
  /\ \/ /\ op' = op
        /\ IF netPc = "returned"
             THEN /\ pc' = "idle"
                  /\ result' = Result("ok", "complete", "", -1)
             ELSE /\ pc' = "nav_wait"
                  /\ result' = result
     \/ \E error \in NavErrors(op.name, op.url) :
          /\ op' = [op EXCEPT !.navError = error]
          /\ pc' = "idle"
          /\ result' = IF IsTimeoutMessage(error)
                         THEN Result("ok", "timeout logged", "", -1)
                         ELSE Result("raised", "navigation", "", -1)
  /\ UNCHANGED <<ctlConst, handed, browser, puppeteerPage, openPages, state, refreshNo, selValue>>
  /\ UNCHANGED <<hashVars, netVars>>

\* waitForPageAndFramesLoad returns (the minimum wait is over): Promise.all
\* resolves if the navigation call has resolved, and the verb returns.
NavWaitReturns ==
  /\ netPc = "minwait"
  /\ clock - startTime >= MinWait
  /\ netPc' = "returned"
  /\ IF pc = "nav_wait"
       THEN /\ pc' = "idle"
            /\ result' = Result("ok", "complete", "", -1)
       ELSE UNCHANGED <<pc, result>>
  /\ UNCHANGED <<clock, pendingRequests, lastActivity, startTime, lastPoll, netEv, netLog>>
  /\ UNCHANGED <<ctlConst, handed, browser, puppeteerPage, openPages, state, op, refreshNo,
                 selValue>>
  /\ UNCHANGED hashVars

\* ------------------------------------------- scrollDown / scrollUp (page.ts)

\* window.innerHeight of the page.
innerHeight == 100

\* The optional amount argument: omitted, or a number of pixels.
Amounts ==
  { [given |-> FALSE, val |-> 0], [given |-> TRUE, val |-> 0], [given |-> TRUE, val |-> 40] }

\* if (amount): undefined and 0 are both falsy.
Truthy(amount) == amount.given /\ amount.val # 0

\* The second argument of the window.scrollBy(0, ...) that is evaluated.
ScrollDelta(dir, amount) ==
  LET by == IF Truthy(amount) THEN amount.val ELSE innerHeight
  IN  IF dir = "scrollDown" THEN by ELSE 0 - by

\* scrollDown(amount) / scrollUp(amount) up to the evaluate call; nothing is
\* done without a document handle.
ScrollStart ==
  /\ pc = "idle"
  /\ \E dir \in {"scrollDown", "scrollUp"}, amount \in Amounts :
       IF puppeteerPage = 0
         THEN /\ op' = [FreshOp(dir) EXCEPT !.amount = amount]
              /\ result' = Result("ok", "no page", "", -1)
              /\ pc' = "idle"
         ELSE /\ op' = [FreshOp(dir) EXCEPT !.amount = amount, !.pageCalls = 1,
                                            !.scrolls = <<ScrollDelta(dir, amount)>>]
              /\ result' = Pending
              /\ pc' = "scroll_eval"
  /\ UNCHANGED <<ctlConst, handed, browser, puppeteerPage, openPages, state, refreshNo, selValue>>
  /\ UNCHANGED <<hashVars, netVars>>

\* await evaluate(...) resolves, or rejects to the caller.
ScrollEnd ==
  /\ pc = "scroll_eval"
  /\ pc' = "idle"
  /\ \E ok \in BOOLEAN :
       result' = IF ok THEN Result("ok", "scrolled", "", -1)
                 ELSE Result("raised", "evaluate", "", -1)
  /\ UNCHANGED <<ctlConst, handed, browser, puppeteerPage, openPages, state, refreshNo, selValue, op>>
  /\ UNCHANGED <<hashVars, netVars>>

\* --------------------------------------------------- scrollToText (page.ts)

\* const selectors = [`::-p-text(${text})`, `::-p-xpath(//*[contains(...)])`]
TextSelectors == <<"p-text", "p-xpath">>

\* What one pass of the selector loop can come to: the query rejects or finds
\* nothing, the visibility check rejects or says hidden, the scroll into view
\* rejects (its timeout included), or the element is shown.
TryOutcomes == {"query rejected", "no element", "check rejected", "hidden",
                "scroll rejected", "shown"}

\* The page calls one pass makes before it ends in the given way.
TryCalls(outcome) ==
  CASE outcome \in {"query rejected", "no element"} -> 1
    [] outcome \in {"check rejected", "hidden"}     -> 2
    [] OTHER                                        -> 3

LoopNextUncaught(outcome, passes) ==
  IF outcome = "shown" THEN "return true"
  ELSE IF outcome \in {"query rejected", "check rejected", "scroll rejected"} THEN "throw"
  ELSE IF passes = Len(TextSelectors) THEN "return false"
  ELSE "continue"

\* How one pass ends the loop or not: a shown element returns true; a
\* rejection is caught by the inner catch and, like a missing or hidden
\* element, lets the loop go on; after the last selector false is returned.
LoopNext(outcome, passes) ==
  IF outcome = "shown" THEN "return true"
  ELSE IF passes = Len(TextSelectors) THEN "return false"
  ELSE "continue"

\* scrollToText(text) up to the loop: without a document handle it throws
\* 'Puppeteer is not connected'.
ScrollToText ==
  /\ pc = "idle"
  /\ \E text \in Texts :
       /\ op' = [FreshOp("scrollToText") EXCEPT !.text = text]
       /\ IF puppeteerPage = 0
            THEN /\ result' = Result("raised", "not connected", "", -1)
                 /\ pc' = "idle"
            ELSE /\ result' = Pending
                 /\ pc' = "st_loop"
  /\ UNCHANGED <<ctlConst, handed, browser, puppeteerPage, openPages, state, refreshNo, selValue>>
  /\ UNCHANGED <<hashVars, netVars>>

\* One pass of for (const selector of selectors): $(selector), the visibility
\* check, _scrollIntoViewIfNeeded and the 500 ms sleep; a shown element
\* returns true, anything else is caught or skipped and the loop goes on;
\* after the last selector it returns false. What escapes the inner catch
\* would be thrown on by the outer one.
StTry ==
  /\ pc = "st_loop"
  /\ Len(op.attempts) < Len(TextSelectors)
  /\ \E outcome \in TryOutcomes :
       LET selector == TextSelectors[Len(op.attempts) + 1]
           tried == Append(op.attempts, [strategy |-> selector, outcome |-> outcome])
               next == LoopNext(outcome, Len(tried))
       IN  /\ op' = [op EXCEPT !.attempts = tried,
                               !.pageCalls = @ + TryCalls(outcome)]
           /\ pc' = IF next = "continue" THEN "st_loop" ELSE "idle"
           /\ result' = CASE next = "return true"  -> Result("true", "", "", -1)
                          [] next = "return false" -> Result("false", "", "", -1)
                          [] next = "throw"        -> Result("raised", "scroll to text", "", -1)
                          [] OTHER                 -> result
  /\ UNCHANGED <<ctlConst, handed, browser, puppeteerPage, openPages, state, refreshNo, selValue>>
  /\ UNCHANGED <<hashVars, netVars>>

\* ------------------------------------------ selector synthesis (views.ts)

\* Text is the sequence of its characters; a tag name is one piece.
Letters ==
  {"a", "b", "c", "d", "e", "f", "g", "h", "i", "j", "k", "l", "m",
   "n", "o", "p", "q", "r", "s", "t", "u", "v", "w", "x", "y", "z",
   "A", "B", "C", "D", "E", "F", "G", "H", "I", "J", "K", "L", "M",
   "N", "O", "P", "Q", "R", "S", "T", "U", "V", "W", "X", "Y", "Z"}

Digits == {"0", "1", "2", "3", "4", "5", "6", "7", "8", "9"}

White == {" ", "\t", "\n", "\r"}

\* /^[a-zA-Z_][a-zA-Z0-9_-]*$/.test(s)
IsIdent(s) ==
  /\ s # <<>>
  /\ s[1] \in Letters \cup {"_"}
  /\ \A i \in 2..Len(s) : s[i] \in Letters \cup Digits \cup {"_", "-"}

\* /\d{3,}/.test(s)
HasDigitRun(s) ==
  \E i \in 1..(Len(s) - 2) : s[i] \in Digits /\ s[i + 1] \in Digits /\ s[i + 2] \in Digits

\* s.split(/\s+/)
RECURSIVE SplitWs(_)
SplitWs(s) ==
  IF s = <<>> THEN << <<>> >>
  ELSE LET rest == SplitWs(Tail(s))
       IN  IF Head(s) \in White
             THEN IF Tail(s) # <<>> /\ Head(Tail(s)) \in White
                    THEN rest
                    ELSE << <<>> >> \o rest
             ELSE << <<Head(s)>> \o Head(rest) >> \o Tail(rest)

\* parts.join(sep)
RECURSIVE Join(_, _)
Join(parts, sep) ==
  IF parts = <<>> THEN <<>>
  ELSE IF Len(parts) = 1 THEN parts[1]
  ELSE parts[1] \o sep \o Join(Tail(parts), sep)

\* this.attributes[name]: the value, or empty for a missing attribute (both
\* falsy wherever the synthesis looks at them).
AttrOf(el, name) ==
  LET hits == SelectSeq(el.attributes, LAMBDA a : a[1] = name)
  IN  IF hits = <<>> THEN <<>> ELSE hits[1][2]

SkipsClassKeepLong(className) ==
  \/ \A i \in DOMAIN className : className[i] \in White
  \/ HasDigitRun(className)

\* The two `continue`s of the class loop: blank, or dynamic-looking (a run of
\* three digits, or longer than 20 characters).
SkipsClass(className) ==
  \/ \A i \in DOMAIN className : className[i] \in White
  \/ HasDigitRun(className)
  \/ Len(className) > 20

\* The class loop: each kept class that is a valid name is added while fewer
\* than 2 have been.
RECURSIVE ClassSuffix(_, _)
ClassSuffix(classes, classCount) ==
  IF classes = <<>> THEN <<>>
  ELSE LET className == Head(classes)
       IN  IF ~SkipsClass(className) /\ IsIdent(className) /\ classCount < 2
             THEN <<".">> \o className \o ClassSuffix(Tail(classes), classCount + 1)
             ELSE ClassSuffix(Tail(classes), classCount)

KEY_ATTRIBUTES == {"aria-label", "role", "type", "placeholder", "title", "alt"}

\* /["'<>`\n\r\t]/.test(value); the backquote is written "backquote".
NeedsSubstringMatch(value) ==
  \E i \in DOMAIN value :
    value[i] \in {"\"", "'", "<", ">", "backquote", "\n", "\r", "\t"}

\* value.replace(/\s+/g, ' ').trim()
Collapse(value) ==
  Join(SelectSeq(SplitWs(value), LAMBDA w : w # <<>>), <<" ">>)

\* collapsedValue.replace(/"/g, '\\"')
RECURSIVE EscapeQuotes(_)
EscapeQuotes(value) ==
  IF value = <<>> THEN <<>>
  ELSE (IF Head(value) = "\"" THEN <<"\\", "\"">> ELSE <<Head(value)>>)
         \o EscapeQuotes(Tail(value))

\* The loop over Object.entries(this.attributes): every allow-listed attribute
\* with a value adds [name="value"], or [name*="value"] for a value with
\* quotes, angle brackets or control characters. (No allow-listed name holds a
\* ':', so safeAttribute is the name.)
RECURSIVE AttrSuffix(_)
AttrSuffix(attributes) ==
  IF attributes = <<>> THEN <<>>
  ELSE LET attribute == Head(attributes)[1]
           value == Head(attributes)[2]
           here == IF attribute \notin KEY_ATTRIBUTES \/ value = <<>> THEN <<>>
                   ELSE IF NeedsSubstringMatch(value)
                     THEN <<"[", attribute, "*=\"">> \o EscapeQuotes(Collapse(value)) \o <<"\"]">>
                     ELSE <<"[", attribute, "=\"">> \o value \o <<"\"]">>
       IN  here \o AttrSuffix(Tail(attributes))

\* convertSimpleXPathToCssSelector on the bracketed indices of one part: a number n gives
\* :nth-of-type(n), last() gives :last-of-type, a position() predicate with
\* '>1' gives :nth-of-type(n+2), anything else nothing.
RECURSIVE IndexSuffix(_)
IndexSuffix(indices) ==
  IF indices = <<>> THEN <<>>
  ELSE LET idx == Head(indices)
           here == IF idx # <<>> /\ \A i \in DOMAIN idx : idx[i] \in Digits
                     THEN <<":nth-of-type(">> \o idx \o <<")">>
                   ELSE IF idx = <<"last()">> THEN <<":last-of-type">>
                   ELSE IF idx = <<"position()", ">1">> THEN <<":nth-of-type(n+2)">>
                   ELSE <<>>
       IN  here \o IndexSuffix(Tail(indices))

\* convertSimpleXPathToCssSelector(xpath): the parts, converted, joined by ' > '.
convertSimpleXPathToCssSelector(xpath) ==
  Join([i \in DOMAIN xpath |-> <<xpath[i].base>> \o IndexSuffix(xpath[i].indices)],
       <<" > ">>)

\* `${tagName}[highlight-index='${this.highlightIndex}']`
Sentinel(el) ==
  <<IF el.tagName = "" THEN "*" ELSE el.tagName, "[highlight-index='", el.highlightIndex, "']">>

UsesTestIdAlways(testId, includeDynamicAttributes) == testId # <<>>

\* if (testId && includeDynamicAttributes)
UsesTestId(testId, includeDynamicAttributes) ==
  testId # <<>> /\ includeDynamicAttributes

\* enhancedCssSelectorForElement(includeDynamicAttributes). Reading a property
\* of a missing attribute map throws, which the catch turns into the sentinel.
enhancedCssSelectorForElement(el, includeDynamicAttributes) ==
  LET tagName == IF el.tagName = "" THEN "*" ELSE el.tagName
      id == AttrOf(el, "id")
      testAttr == IF AttrOf(el, "data-testid") # <<>> THEN "data-testid"
                  ELSE IF AttrOf(el, "data-qa") # <<>> THEN "data-qa"
                  ELSE "data-cy"
      testId == AttrOf(el, testAttr)
      name == AttrOf(el, "name")
      class == AttrOf(el, "class")
      general == <<tagName>>
                   \o (IF class # <<>> /\ includeDynamicAttributes
                         THEN ClassSuffix(SplitWs(class), 0) ELSE <<>>)
                   \o AttrSuffix(el.attributes)
  IN  IF el.xpath = <<>> THEN <<>>
      ELSE IF ~el.hasAttributes THEN Sentinel(el)
      ELSE IF IsIdent(id) THEN <<tagName, "#">> \o id
      ELSE IF UsesTestId(testId, includeDynamicAttributes)
        THEN <<tagName, "[", testAttr, "=\"">> \o testId \o <<"\"]">>
      ELSE IF name # <<>> /\ tagName \in {"input", "textarea", "select", "button"}
        THEN <<tagName, "[name=\"">> \o name \o <<"\"]">>
      ELSE IF general = <<tagName>> THEN convertSimpleXPathToCssSelector(el.xpath)
      ELSE general

\* The elements selector synthesis is applied to: every combination of tag,
\* xpath, id, class, name, test attribute and aria-label below, with or
\* without an attribute map.
SynthElements ==
  LET btnDigits == <<"b", "t", "n", "-", "1", "2", "3", "4", "5", "6", "7">>
      \* a valid class name of 21 characters
      long == <<"c", "o", "l", "-", "a", "b", "c", "d", "e", "f", "g",
                "h", "i", "j", "k", "l", "m", "n", "o", "p", "q">>
      ids == {<<>>, <<"s", "e", "a", "r", "c", "h", "-", "b", "o", "x">>, <<"9", "x">>}
      classes ==
        { <<>>,
          <<"b", "t", "n", " ">> \o btnDigits,
          btnDigits \o <<" ", " ", "n", "a", "v", " ", "c", "a", "r", "d", "\t", "m", "e", "n", "u">>,
          long \o <<" ", "o", "k">> }
      labels == {<<>>, <<"G", "o">>, <<"s", "a", "y", " ", " ", "\"", "h", "i", "\"">>}
      xpaths ==
        { <<>>,
          << [base |-> "html", indices |-> <<>>],
             [base |-> "div", indices |-> << <<"2">> >>],
             [base |-> "a", indices |-> << <<"last()">> >>] >> }
      Opt(name, value) == IF value = <<>> THEN <<>> ELSE << <<name, value>> >>
      tests ==
        { <<>>,
          Opt("data-qa", <<"t", "1">>),
          Opt("data-cy", <<"t", "3">>) \o Opt("data-qa", <<"t", "2">>),
          Opt("data-cy", <<"t", "3">>) \o Opt("data-qa", <<"t", "2">>)
            \o Opt("data-testid", <<"t", "0">>) }
  IN  { El(tag, xpath, has,
           IF has THEN Opt("id", id) \o Opt("class", class) \o Opt("name", name)
                       \o test \o Opt("aria-label", label)
           ELSE <<>>,
           "7", <<>>) :
          tag \in {"input", "div", ""}, xpath \in xpaths, has \in BOOLEAN,
          id \in ids, class \in classes, name \in {<<>>, <<"q">>},
          test \in tests, label \in labels }

\* enhancedCssSelectorForElement applied to an element, with either setting of
\* includeDynamicAttributes. The function has no state, so one application
\* per behaviour covers it.
Synthesize ==
  /\ pc = "idle"
  /\ op.name = "none"
  /\ \E el \in SynthElements, includeDynamicAttributes \in BOOLEAN :
       op' = [FreshOp("enhancedCssSelectorForElement") EXCEPT
                !.el = el, !.dyn = includeDynamicAttributes,
                !.selector = enhancedCssSelectorForElement(el, includeDynamicAttributes)]
  /\ result' = Result("ok", "", "", -1)
  /\ UNCHANGED <<ctlConst, handed, browser, puppeteerPage, openPages, state, refreshNo, selValue, pc>>
  /\ UNCHANGED <<hashVars, netVars>>

\* --------------------------------------------------- locateElement (page.ts)

\* The nodes locateElement is called with.
LocTargets ==
  LET go == <<"g", "o">>
      xpButton == << [base |-> "html", indices |-> <<>>],
                     [base |-> "button", indices |-> << <<"1">> >>] >>
      xpFrame == << [base |-> "html", indices |-> <<>>],
                    [base |-> "iframe", indices |-> << <<"1">> >>] >>
      \* ancestors: an inner iframe with an id, an outer iframe without one, an
      \* iframe without attribute map, and an ancestor that is no iframe
      innerFrame == El("iframe", xpFrame, TRUE, << <<"id", <<"p", "a", "y">> >> >>, "undefined", <<>>)
      outerFrame == El("iframe", xpFrame, TRUE, <<>>, "undefined", <<>>)
      brokenFrame == El("iframe", xpFrame, FALSE, <<>>, "undefined", <<>>)
      wrapper == El("div", xpFrame, TRUE, <<>>, "undefined", <<>>)
  IN  { \* every strategy applies
        El("button", xpButton, TRUE,
           << <<"id", go>>, <<"name", <<"q">> >>, <<"aria-label", <<"G", "o">> >> >>,
           "3", <<>>),
        \* no xpath, no id: selector '' and only name and aria-label beside it
        El("input", <<>>, TRUE,
           << <<"name", <<"q">> >>, <<"aria-label", <<"G", "o">> >> >>, "4", <<>>),
        \* no attribute at all
        El("div", xpButton, TRUE, <<>>, "5", <<wrapper>>),
        \* the attribute map is missing
        El("a", xpButton, FALSE, <<>>, "6", <<>>),
        \* inside two iframes
        El("button", xpButton, TRUE, << <<"id", go>> >>, "7",
           <<wrapper, innerFrame, wrapper, outerFrame, wrapper>>),
        \* inside an iframe whose attribute map is missing
        El("button", xpButton, TRUE, << <<"id", go>> >>, "8",
           <<brokenFrame, wrapper>>) }

\* parents.reverse().filter(item => item.tagName === 'iframe')
Iframes(el) == SelectSeq(Reverse(el.parents), LAMBDA item : item.tagName = "iframe")

\* One call to the page made by locateElement: what kind of call, in the frame
\* at which depth, with which selector, and how it ended.
Query(kind, depth, selector, outcome) ==
  [kind |-> kind, depth |-> depth, selector |-> selector, outcome |-> outcome]

StrategyKinds == {"css", "xpath", "id", "name", "aria-label"}

\* The frames entered so far.
Entered == Len(SelectSeq(op.queries, LAMBDA q : q.kind = "contentFrame" /\ q.outcome = "frame"))

\* The strategies queried so far.
Tried == SelectSeq(op.queries, LAMBDA q : q.kind \in StrategyKinds)

\* The xpath as the text the node carries: parts with their bracketed indices,
\* separated by '/'.
XPathText(xpath) ==
  Join([i \in DOMAIN xpath |->
          <<xpath[i].base>>
            \o Join([j \in DOMAIN xpath[i].indices |-> <<"[">> \o xpath[i].indices[j] \o <<"]">>],
                    <<>>)],
       <<"/">>)

\* The strategies of a node in the order of the code, each with its selector;
\* those whose `if` fails are left out. The id, name and aria-label lookups
\* read the attribute map.
Strategies(el, includeDynamicAttributes) ==
  LET id == AttrOf(el, "id")
      name == AttrOf(el, "name")
      ariaLabel == AttrOf(el, "aria-label")
  IN  << [kind |-> "css",
           selector |-> enhancedCssSelectorForElement(el, includeDynamicAttributes)] >>
      \o (IF el.xpath # <<>>
            THEN << [kind |-> "xpath",
                     selector |-> <<"xpath/">> \o XPathText(el.xpath)] >>
            ELSE <<>>)
      \o (IF id # <<>>
            THEN << [kind |-> "id", selector |-> <<"#">> \o id] >> ELSE <<>>)
      \o (IF name # <<>> /\ el.tagName # ""
            THEN << [kind |-> "name",
                     selector |-> <<el.tagName, "[name=\"">> \o name \o <<"\"]">>] >>
            ELSE <<>>)
      \o (IF ariaLabel # <<>> /\ el.tagName # ""
            THEN << [kind |-> "aria-label",
                     selector |-> <<el.tagName, "[aria-label=\"">> \o ariaLabel \o <<"\"]">>] >>
            ELSE <<>>)

\* locateElement(element) up to the frame loop: null without a document handle.
LocStart ==
  /\ pc = "idle"
  /\ \E el \in LocTargets, includeDynamicAttributes \in BOOLEAN :
       op' = [FreshOp("locateElement") EXCEPT !.el = el, !.dyn = includeDynamicAttributes]
  /\ IF puppeteerPage = 0
       THEN /\ result' = Result("null", "not connected", "", -1)
            /\ pc' = "idle"
       ELSE /\ result' = Pending
            /\ pc' = "loc_run"
  /\ UNCHANGED <<ctlConst, handed, browser, puppeteerPage, openPages, state, refreshNo, selValue>>
  /\ UNCHANGED <<hashVars, netVars>>

\* const frameElement = await currentFrame.$(cssSelector) for the next iframe
\* ancestor: null returns null; the call stands in no try block, so a
\* rejection leaves locateElement.
LocFrameQuery ==
  /\ pc = "loc_run"
  /\ Entered < Len(Iframes(op.el))
  /\ \E outcome \in {"found", "null", "rejected"} :
       LET parent == Iframes(op.el)[Entered + 1]
           cssSelector == enhancedCssSelectorForElement(parent, op.dyn)
       IN  /\ op' = [op EXCEPT !.queries = Append(@, Query("iframe", Entered, cssSelector, outcome))]
           /\ pc' = IF outcome = "found" THEN "loc_enter" ELSE "idle"
           /\ result' = CASE outcome = "found" -> result
                          [] outcome = "null"  -> Result("null", "iframe not found", "", -1)
                          [] OTHER             -> Result("raised", "iframe query", "", -1)
  /\ UNCHANGED <<ctlConst, handed, browser, puppeteerPage, openPages, state, refreshNo, selValue>>
  /\ UNCHANGED <<hashVars, netVars>>

\* const frame = await frameElement.contentFrame(): null returns null, a
\* rejection leaves locateElement, a frame becomes currentFrame.
LocFrameEnter ==
  /\ pc = "loc_enter"
  /\ \E outcome \in {"frame", "null", "rejected"} :
       /\ op' = [op EXCEPT !.queries = Append(@, Query("contentFrame", Entered, <<>>, outcome))]
       /\ pc' = IF outcome = "frame" THEN "loc_run" ELSE "idle"
       /\ result' = CASE outcome = "frame" -> result
                      [] outcome = "null"  -> Result("null", "no frame content", "", -1)
                      [] OTHER             -> Result("raised", "content frame", "", -1)
  /\ UNCHANGED <<ctlConst, handed, browser, puppeteerPage, openPages, state, refreshNo, selValue>>
  /\ UNCHANGED <<hashVars, netVars>>

\* The next strategy's await currentFrame.$(selector) inside its try block: a
\* handle goes on to the scroll stabilization, null or a rejection to the
\* next strategy.
LocTry ==
  /\ pc = "loc_run"
  /\ Entered = Len(Iframes(op.el))
  /\ Len(Tried) < Len(Strategies(op.el, op.dyn))
  /\ \E outcome \in {"found", "null", "rejected"} :
       LET strategy == Strategies(op.el, op.dyn)[Len(Tried) + 1]
       IN  /\ op' = [op EXCEPT !.queries =
                       Append(@, Query(strategy.kind, Entered, strategy.selector, outcome))]
           /\ pc' = IF outcome = "found" THEN "loc_stabilize" ELSE "loc_run"
  /\ UNCHANGED <<ctlConst, handed, browser, puppeteerPage, openPages, state, refreshNo, selValue, result>>
  /\ UNCHANGED <<hashVars, netVars>>

ReturnsHandleAnyway(stabilized) == TRUE

\* await this._scrollIntoViewIfNeeded(handle); return handle: the return is
\* reached only when the wait did not throw.
ReturnsHandle(stabilized) == stabilized

\* The scroll stabilization of the handle just found, in the same try block.
LocStabilize ==
  /\ pc = "loc_stabilize"
  /\ \E stabilized \in BOOLEAN :
       LET found == op.queries[Len(op.queries)]
       IN  /\ op' = [op EXCEPT !.queries =
                       Append(@, Query("stabilize", Entered, found.selector,
                                       IF stabilized THEN "ok" ELSE "rejected"))]
           /\ IF ReturnsHandle(stabilized)
                THEN /\ result' = Result("handle", "", found.kind, -1)
                     /\ pc' = "idle"
                ELSE /\ result' = result
                     /\ pc' = "loc_run"
  /\ UNCHANGED <<ctlConst, handed, browser, puppeteerPage, openPages, state, refreshNo, selValue>>
  /\ UNCHANGED <<hashVars, netVars>>

\* No strategy is left: 'All strategies failed', return null. For a node
\* without attribute map the read of attributes['id'] after the xpath
\* strategy throws instead, outside any try block.
LocEnd ==
  /\ pc = "loc_run"
  /\ Entered = Len(Iframes(op.el))
  /\ Len(Tried) = Len(Strategies(op.el, op.dyn))
  /\ pc' = "idle"
  /\ result' = IF op.el.hasAttributes THEN Result("null", "all strategies failed", "", -1)
               ELSE Result("raised", "attributes", "", -1)
  /\ UNCHANGED <<ctlConst, handed, browser, puppeteerPage, openPages, state, refreshNo, selValue, op>>
  /\ UNCHANGED <<hashVars, netVars>>

\* --------------------------------------------- inputTextElementNode (page.ts)

\* inputTextElementNode(useVision, elementNode, text): not connected raises at
\* once; a node with a highlightIndex is refreshed first (focused on its index).
InputStart ==
  /\ pc = "idle"
  /\ \E n \in CallerNodes, uv \in BOOLEAN :
       IF puppeteerPage = 0
         THEN /\ op' = [FreshOp("input") EXCEPT !.node = n, !.target = n, !.useVision = uv]
              /\ result' = Result("raised", "not connected", "", -1)
              /\ UNCHANGED <<pc, refreshNo>>
         ELSE IF n.highlightIndex # -1
           THEN /\ refreshNo < MaxRefresh
                /\ refreshNo' = refreshNo + 1
                /\ op' = [FreshOp("input") EXCEPT !.node = n, !.target = n, !.useVision = uv,
                                                  !.ret = "input", !.focus = n.highlightIndex,
                                                  !.refresh = "running"]
                /\ pc' = "us_probe"
                /\ result' = Pending
           ELSE /\ op' = [FreshOp("input") EXCEPT !.node = n, !.target = n, !.useVision = uv]
                /\ pc' = "it_locate"
                /\ result' = Pending
                /\ UNCHANGED refreshNo
  /\ UNCHANGED <<ctlConst, handed, browser, puppeteerPage, openPages, state, selValue>>
  /\ UNCHANGED <<hashVars, netVars>>

\* const freshElement = this._state.selectorMap.get(elementNode.highlightIndex);
\* if (freshElement) targetElement = freshElement;
InputResolve ==
  /\ pc = "it_resolve"
  /\ LET fresh == MapGet(state.selectorMap, op.node.highlightIndex) IN
       op' = [op EXCEPT !.target = IF fresh # NoNode THEN fresh ELSE op.node]
  /\ pc' = "it_locate"
  /\ UNCHANGED <<ctlConst, handed, browser, puppeteerPage, openPages, state, refreshNo,
                 result, selValue>>
  /\ UNCHANGED <<hashVars, netVars>>

\* const element = await this.locateElement(targetElement): a handle or null.
InputLocate ==
  /\ pc = "it_locate"
  /\ \E found \in BOOLEAN :
       /\ op' = [op EXCEPT !.hasHandle = found, !.locateCalls = @ + 1]
       /\ pc' = IF found THEN "it_handle" ELSE "it_host"
  /\ UNCHANGED <<ctlConst, handed, browser, puppeteerPage, openPages, state, refreshNo,
                 result, selValue>>
  /\ UNCHANGED <<hashVars, netVars>>

\* The steps taken with a handle, in the order of the text.
HandleSteps == <<"stabilize", "clear", "type">>

\* Whether the method goes on to chrome.scripting.executeScript: only from
\* `if (element)` being false; a failed step with a handle leaves through the
\* outer catch.
HostFallback(hasHandle, failed) == ~hasHandle

\* With a handle: await _scrollIntoViewIfNeeded(element); await
\* element.evaluate(clear the field and dispatch input, change); await
\* element.type(text); return. Each await may reject.
InputStep ==
  /\ pc = "it_handle"
  /\ \E ok \in BOOLEAN :
       LET step == HandleSteps[Len(op.attempts) + 1]
           done == Append(op.attempts, Attempt(step, ok, NoPt))
       IN  /\ op' = [op EXCEPT !.attempts = done]
           /\ IF ok
                THEN IF step = "type"
                       THEN /\ result' = Result("ok", "typed", "", -1)
                            /\ pc' = "idle"
                       ELSE /\ result' = result
                            /\ pc' = "it_handle"
                ELSE IF HostFallback(op.hasHandle, TRUE)
                  THEN /\ result' = result
                       /\ pc' = "it_host"
                  ELSE Raise(step)
  /\ UNCHANGED <<ctlConst, handed, browser, puppeteerPage, openPages, state, refreshNo, selValue>>
  /\ UNCHANGED <<hashVars, netVars>>

\* The lookups of the injected function for a target with these attributes:
\* getElementById, tag[name=], tag[aria-label=], each only for an attribute the
\* target has, then tag[role="combobox"].
HostLookups(attrs) ==
  SelectSeq(<<"id", "name", "aria-label", "combobox">>,
            LAMBDA l : l = "combobox" \/ l \in attrs)

\* Without a handle: chrome.scripting.executeScript rejects, or the injected
\* function runs its lookups until one finds an element, and then sets the
\* value of an input or textarea, or the text of a contenteditable element;
\* anything but a success makes the method throw.
InputHost ==
  /\ pc = "it_host"
  /\ pc' = "idle"
  /\ \/ /\ op' = [op EXCEPT !.attempts = Append(@, Attempt("host", FALSE, NoPt))]
        /\ Raise("executeScript")
     \/ \E attrs \in {{}, {"name"}, {"id", "aria-label"}} :
          \E hit \in 0 .. Len(HostLookups(attrs)), kind \in {"input", "editable", "other"} :
            LET lookups == HostLookups(attrs)
                tried == [i \in 1 .. (IF hit = 0 THEN Len(lookups) ELSE hit) |->
                            Attempt(lookups[i], i = hit, NoPt)]
                success == hit # 0 /\ kind # "other"
            IN  /\ op' = [op EXCEPT !.attempts = @ \o <<Attempt("host", TRUE, NoPt)>> \o tried
                                                 \o (IF hit = 0 THEN <<>>
                                                      ELSE <<Attempt("set", success, NoPt)>>)]
                /\ IF success
                     THEN result' = Result("ok", "host", "", -1)
                     ELSE Raise(IF hit = 0 THEN "Element not found via any selector"
                                ELSE "Element is not an input or contenteditable")
  /\ UNCHANGED <<ctlConst, handed, browser, puppeteerPage, openPages, state, refreshNo, selValue>>
  /\ UNCHANGED <<hashVars, netVars>>

\* ------------------------------------ _scrollIntoViewIfNeeded (page.ts)

\* What the element looks like when the in-page check runs.
Look(hasSize, hidden, inViewport) ==
  [hasSize |-> hasSize, hidden |-> hidden, inViewport |-> inViewport]

\* rect of zero width or height; visibility hidden, display none or opacity 0;
\* partly or wholly outside the viewport; fully inside it.
Looks ==
  { Look(FALSE, FALSE, TRUE), Look(TRUE, TRUE, TRUE), Look(TRUE, TRUE, FALSE),
    Look(TRUE, FALSE, FALSE), Look(TRUE, FALSE, TRUE) }

ScrollsWhenHidden(look) == look.hasSize /\ ~look.inViewport

\* The in-page check reaches el.scrollIntoView({block: 'center', inline:
\* 'center'}): after the size and the hidden checks, when !isInViewport.
Scrolls(look) == look.hasSize /\ ~look.hidden /\ ~look.inViewport

\* The value the in-page check returns.
IsVisible(look) == look.hasSize /\ ~look.hidden /\ look.inViewport

\* Date.now() - startTime > timeout
TimedOut(elapsed) == elapsed > ScrollTimeout

\* _scrollIntoViewIfNeeded(element) is called: startTime is taken.
ScrollIntoViewIfNeeded ==
  /\ pc = "idle"
  /\ op.name = "none"
  /\ op' = FreshOp("_scrollIntoViewIfNeeded")
  /\ pc' = "siv_poll"
  /\ result' = Pending
  /\ UNCHANGED <<ctlConst, handed, browser, puppeteerPage, openPages, state, refreshNo, selValue>>
  /\ UNCHANGED <<hashVars, netVars>>

\* One round of the loop: element.evaluate runs the check in the page, taking
\* no or one interval, or rejects (the element left the document, the context
\* was destroyed), which ends the wait with that error. A visible element
\* breaks the loop; else the timeout is checked and the sleep begins.
SivPoll ==
  /\ pc = "siv_poll"
  /\ \E took \in {0, 1} :
       LET now == op.elapsed + took IN
         \/ /\ op' = [op EXCEPT !.elapsed = now]
            /\ result' = Result("raised", "evaluate", "", -1)
            /\ pc' = "idle"
         \/ \E look \in Looks :
              /\ op' = [op EXCEPT !.elapsed = now,
                                  !.polls = Append(@, [look |-> look,
                                                       scrolled |-> Scrolls(look),
                                                       at |-> now])]
              /\ IF IsVisible(look)
                   THEN /\ result' = Result("ok", "", "", -1)
                        /\ pc' = "idle"
                   ELSE IF TimedOut(now)
                     THEN /\ result' = Result("raised", "Timed out while trying to scroll element into view", "", -1)
                          /\ pc' = "idle"
                     ELSE /\ result' = result
                          /\ pc' = "siv_sleep"
  /\ UNCHANGED <<ctlConst, handed, browser, puppeteerPage, openPages, state, refreshNo, selValue>>
  /\ UNCHANGED <<hashVars, netVars>>

\* await new Promise(resolve => setTimeout(resolve, 100))
SivSleep ==
  /\ pc = "siv_sleep"
  /\ op' = [op EXCEPT !.elapsed = @ + 1]
  /\ pc' = "siv_poll"
  /\ UNCHANGED <<ctlConst, handed, browser, puppeteerPage, openPages, state, refreshNo, selValue, result>>
  /\ UNCHANGED <<hashVars, netVars>>

\* ------------------------------------------- navigation and scroll: claims

ScrollWaitRan == op.name = "_scrollIntoViewIfNeeded"

LastPoll == op.polls[Len(op.polls)]

C31_TimeoutReached ==
  /\ ScrollWaitRan /\ pc = "idle" /\ result.kind = "raised"
  /\ result.reason # "evaluate"
  /\ \A i \in DOMAIN op.polls : op.polls[i].look.hidden

ActionVerbs ==
  {"click", "inputText", "sendKeys", "scrollToText", "select", "getDropdownOptions",
   "navigateTo", "refreshPage", "goBack", "goForward", "scrollDown", "scrollUp"}

\* A navigation verb that started a page-settle wait has returned or raised.
NavWaitDone == op.name \in NavVerbs /\ op.pageCalls = 1 /\ pc = "idle"

\* The monitor of the wait is polling: its request and response listeners are
\* registered on the page.
ListenersOn == netPc = "polling"

\* C36: when a navigation verb returns or raises, the network-idle monitor it
\* started has finished and its listeners are deregistered: no page-settle
\* wait is still running after the operation completed, also when the
\* navigation failed before the wait ended.
C36_NoWaitOutlivesOperation ==
  NavWaitDone => (~ListenersOn /\ netPc = "returned")

\* C36, the part that holds: when the navigation call resolved, the verb
\* returns only after the wait returned, its listeners removed.
C36_WaitOverOnSuccess ==
  (NavWaitDone /\ result.reason = "complete") => netPc = "returned"

\* C21: an action verb invoked while no document handle is held raises a
\* not-connected error and makes no call to the page.
C21_NotConnectedRaises ==
  (op.name \in ActionVerbs /\ puppeteerPage = 0)
    => /\ op.pageCalls = 0
       /\ result.kind = "raised"
       /\ result.reason \in {"not connected", "element not found or not connected"}

\* C21, the part that holds: no verb touches the page without a handle, and
\* scrollToText raises.
C21_NoPageCallDetached ==
  (op.name \in ActionVerbs /\ puppeteerPage = 0)
    => /\ op.pageCalls = 0
       /\ op.name = "scrollToText" => result.kind = "raised"

NavFailed == op.name \in NavVerbs /\ pc = "idle" /\ op.navError.message # <<>>

\* C22: when the navigation call of navigateTo, refreshPage, goBack or
\* goForward fails with a timeout the verb returns normally, attached and with
\* PageState as it was; when it fails with anything else the failure is
\* raised to the caller.
C22_TimeoutIsSoft ==
  NavFailed =>
    /\ op.navError.timedOut
         => (result.kind = "ok" /\ attached /\ state = op.before)
    /\ ~op.navError.timedOut => result.kind = "raised"

\* C22, the part that holds: a timed-out navigation is soft and leaves the
\* controller attached and PageState unchanged.
C22_TimeoutReturns ==
  (NavFailed /\ op.navError.timedOut)
    => (result.kind = "ok" /\ attached /\ state = op.before)

\* C26: scrollDown(amount) and scrollUp(amount) scroll by the amount whenever
\* one is given, 0 included, and by one viewport height only when it is
\* omitted.
C26_ScrollsByAmount ==
  (op.name \in {"scrollDown", "scrollUp"} /\ op.scrolls # <<>>)
    => LET by == IF op.amount.given THEN op.amount.val ELSE innerHeight
       IN  op.scrolls = <<IF op.name = "scrollDown" THEN by ELSE 0 - by>>

\* C26, the part that holds: a non-zero amount is scrolled exactly, and an
\* omitted one scrolls one viewport height.
C26_NonZeroAmount ==
  (op.name \in {"scrollDown", "scrollUp"} /\ op.scrolls # <<>>
     /\ (op.amount.given => op.amount.val # 0))
    => LET by == IF op.amount.given THEN op.amount.val ELSE innerHeight
       IN  op.scrolls = <<IF op.name = "scrollDown" THEN by ELSE 0 - by>>

ScrollToTextRan == op.name = "scrollToText" /\ puppeteerPage # 0

SynthRan == op.name = "enhancedCssSelectorForElement"

TagOf(el) == IF el.tagName = "" THEN "*" ELSE el.tagName

\* C23: for every element whose id matches [a-zA-Z_][a-zA-Z0-9_-]* the
\* synthesized selector is exactly tag#id, whatever its other attributes,
\* classes, xpath and the includeDynamicAttributes setting.
C23_ValidIdWins ==
  (SynthRan /\ IsIdent(AttrOf(op.el, "id")))
    => op.selector = <<TagOf(op.el), "#">> \o AttrOf(op.el, "id")

\* C23, the part that holds: the same for elements that have an xpath.
C23_ValidIdWinsWithXPath ==
  (SynthRan /\ IsIdent(AttrOf(op.el, "id")) /\ op.el.xpath # <<>>)
    => op.selector = <<TagOf(op.el), "#">> \o AttrOf(op.el, "id")

\* The test attributes in their order of precedence.
TestAttrs == <<"data-testid", "data-qa", "data-cy">>

\* The first test attribute the element carries with a value, "none" if none.
FirstTestAttr(el) ==
  LET has == {i \in DOMAIN TestAttrs : AttrOf(el, TestAttrs[i]) # <<>>}
  IN  IF has = {} THEN "none" ELSE TestAttrs[CHOOSE i \in has : \A j \in has : i <= j]

FormTags == {"input", "textarea", "select", "button"}

\* The pieces of a selector: what it is made of besides attribute values.
Mentions(selector, pieces) == \E i \in DOMAIN selector : selector[i] \in pieces

C32_PrecedenceReached ==
  /\ SynthRan /\ op.dyn
  /\ AttrOf(op.el, "data-cy") # <<>>
  /\ op.selector = <<"div", "[", "data-testid", "=\"", "t", "0", "\"]">>

\* The general rule was reached: no rule for id, test attribute or name
\* returned before it.
GeneralRule ==
  /\ SynthRan /\ op.el.xpath # <<>> /\ op.el.hasAttributes
  /\ ~IsIdent(AttrOf(op.el, "id"))
  /\ ~(op.dyn /\ FirstTestAttr(op.el) # "none")
  /\ ~(AttrOf(op.el, "name") # <<>> /\ op.el.tagName \in {"input", "textarea", "select", "button"})

\* The class names of the class attribute that look stable, in attribute order.
StableClasses(el) ==
  SelectSeq(SplitWs(AttrOf(el, "class")),
            LAMBDA c : IsIdent(c) /\ ~HasDigitRun(c) /\ Len(c) <= 20)

\* C24: in the general rule the classes added are the first two, in
\* attribute order, of those that have no run of 3 digits and no more than 20
\* characters; a rejected class takes no place among the two.
C24_TwoStableClasses ==
  GeneralRule =>
    LET stable == StableClasses(op.el)
        kept == IF op.dyn THEN SubSeq(stable, 1, IF Len(stable) < 2 THEN Len(stable) ELSE 2)
                ELSE <<>>
        classPart == Join([i \in DOMAIN kept |-> <<".">> \o kept[i]], <<>>)
        whole == <<TagOf(op.el)>> \o classPart \o AttrSuffix(op.el.attributes)
    IN  /\ Len(kept) <= 2
        /\ op.selector = IF whole = <<TagOf(op.el)>>
                           THEN convertSimpleXPathToCssSelector(op.el.xpath)
                           ELSE whole

\* C24 witness: class "btn-1234567  nav card\tmenu" on a div gives
\* div.nav.card: the first class is rejected and the fourth is over the limit.
C24_Witness ==
  /\ GeneralRule /\ op.dyn
  /\ op.el.tagName = "div"
  /\ Len(SplitWs(AttrOf(op.el, "class"))) = 4
  /\ op.selector = <<"div", ".", "n", "a", "v", ".", "c", "a", "r", "d">>

\* --------------------------------------------------- locateElement: claims

LocateRan == op.name = "locateElement" /\ puppeteerPage # 0

IsSentinel(selector) == Len(selector) = 4 /\ selector[2] = "[highlight-index='"

\* C25: the locator never queries a page or frame with the sentinel selector
\* tag[highlight-index='N'], neither for the target nor for an iframe ancestor.
C25_SentinelNeverQueried ==
  LocateRan => \A i \in DOMAIN op.queries : ~IsSentinel(op.queries[i].selector)

FrameSteps == SelectSeq(op.queries, LAMBDA q : q.kind \in {"iframe", "contentFrame"})

FrameFailed == \E i \in DOMAIN FrameSteps : FrameSteps[i].outcome \notin {"found", "frame"}

\* The iframe ancestors are queried from the outermost inwards, each in the
\* frame entered before it.
FramesTopDown ==
  LET asked == SelectSeq(op.queries, LAMBDA q : q.kind = "iframe")
  IN  /\ Len(asked) <= Len(Iframes(op.el))
      /\ \A i \in DOMAIN asked :
           /\ asked[i].depth = i - 1
           /\ asked[i].selector = enhancedCssSelectorForElement(Iframes(op.el)[i], op.dyn)

\* C29: locateElement enters the iframe ancestors from the outermost to the
\* innermost, and when an iframe's selector does not resolve or its content
\* frame cannot be entered it returns not-found, without raising and without
\* having tried any location strategy.
C29_FramesFailClosed ==
  LocateRan =>
    /\ FramesTopDown
    /\ FrameFailed => (pc = "idle" /\ result.kind = "null" /\ Tried = <<>>)

\* C29, the part that holds: the frames are entered top-down, no strategy is
\* tried after a frame step failed, and a frame step that yields null returns
\* not-found.
C29_FramesNullClosed ==
  LocateRan =>
    /\ FramesTopDown
    /\ FrameFailed => (pc = "idle" /\ Tried = <<>>)
    /\ (\E i \in DOMAIN FrameSteps : FrameSteps[i].outcome = "null") => result.kind = "null"

\* The strategies a node admits, in the order of the claim.
ExpectedKinds(el) ==
  <<"css">>
    \o (IF el.xpath # <<>> THEN <<"xpath">> ELSE <<>>)
    \o (IF AttrOf(el, "id") # <<>> THEN <<"id">> ELSE <<>>)
    \o (IF AttrOf(el, "name") # <<>> /\ el.tagName # "" THEN <<"name">> ELSE <<>>)
    \o (IF AttrOf(el, "aria-label") # <<>> /\ el.tagName # "" THEN <<"aria-label">> ELSE <<>>)

Waiting(c) == calls[c].status = "waiting"
Returned(c) == calls[c].status = "returned"

\* C3: hash() calls that wait at the same time on the same node, with no
\* invalidation between them, wait on one and the same hashDomElement
\* computation (single flight), and a finished call holds the outcome of the
\* computation it waited on.
C3_SingleFlight ==
  /\ \A c1, c2 \in DOMAIN calls :
       (Waiting(c1) /\ Waiting(c2) /\ calls[c1].epoch = calls[c2].epoch)
         => calls[c1].comp = calls[c2].comp
  /\ \A c \in DOMAIN calls :
       (Returned(c) /\ calls[c].comp # 0) => calls[c].val = comps[calls[c].comp].val

\* C4: after clearHashCache() a computation started before the invalidation
\* never becomes the cached value, and a hash() call issued after the
\* invalidation returns the result of a computation started after it.
C4_InvalidationDropsInFlight ==
  /\ hashedValue # 0 => comps[hashedBy].epoch = epoch
  /\ \A c \in DOMAIN calls :
       Returned(c) => comps[calls[c].servedBy].epoch >= calls[c].epoch

\* C5: on a node that was never invalidated, all hash() calls that succeed
\* return the identical value, all of them are served by one computation, and
\* no computation is started once one has succeeded.
C5_HashIdempotent ==
  epoch = 0 =>
    /\ \A c1, c2 \in DOMAIN calls :
         (Returned(c1) /\ Returned(c2))
           => /\ calls[c1].val = calls[c2].val
              /\ calls[c1].servedBy = calls[c2].servedBy
    /\ \A i \in DOMAIN comps : comps[i].status = "resolved" => i = Len(comps)

\* C5 witness: a never-invalidated node answered one call from the computation
\* it started and a later call from the cache.
C5_Witness ==
  /\ epoch = 0
  /\ \E c1, c2 \in DOMAIN calls :
       /\ c1 < c2
       /\ Returned(c1) /\ calls[c1].started
       /\ Returned(c2) /\ calls[c2].comp = 0
       /\ calls[c1].val = calls[c2].val

\* C6: when a hash computation fails, every caller that waited on it got an
\* error naming the element's tag, the cache is Unset (no value, no promise),
\* and the next hash() call starts a fresh computation.
C6_FailureResetsCache ==
  /\ lastEvent = "reject" => (hashedValue = 0 /\ hashPromise = 0)
  /\ \A c \in DOMAIN calls :
       /\ calls[c].status = "threw" => calls[c].errTag = ErrTag(hashTag)
       /\ calls[c].afterReject => calls[c].started


\* ------------------------------------------------------ network wait: claims

\* A request the claim lets into the pending set: one of the six resource
\* types, no deny-listed piece in the lower-cased url, not a data: or blob:
\* url, no prefetch / video / audio fetch-purpose header.
Eligible(r) ==
  /\ r.rtype \in {"document", "stylesheet", "image", "font", "script", "iframe"}
  /\ \A i \in DOMAIN r.url : ToLower(r.url[i]) \notin IGNORED_URL_PATTERNS
  /\ r.url # <<>> => ToLower(r.url[1]) \notin {"data:", "blob:"}
  /\ r.purpose # "prefetch"
  /\ r.dest \notin {"video", "audio"}

\* C12: during a network-idle wait only eligible requests are ever in the
\* pending set, and a request that is not eligible leaves both the pending set
\* and the last-activity time as they were (it never resets the idle timer).
C12_OnlyEligibleTracked ==
  /\ \A r \in pendingRequests : Eligible(r)
  /\ (netEv.kind = "request" /\ ~Eligible(netEv.req))
       => /\ pendingRequests = netEv.pendingBefore
          /\ lastActivity = netEv.activityBefore

\* C12 witness: a request to a DoubleClick url arrived while another request
\* was pending and time had passed since the last activity; nothing moved.
C12_Witness ==
  /\ netEv.kind = "request"
  /\ Includes(netEv.req.url, "DoubleClick")
  /\ netEv.pendingBefore # {}
  /\ netEv.at > netEv.activityBefore
  /\ pendingRequests = netEv.pendingBefore
  /\ lastActivity = netEv.activityBefore

\* A response the claim counts as settling activity: its content-type is not
\* streaming, is in the relevant list, and its content-length is at most 5MB.
Qualifies(p) ==
  /\ ~ \E i \in DOMAIN p.ctype : ToLower(p.ctype[i]) \in STREAMING_CONTENT
  /\ \E i \in DOMAIN p.ctype : ToLower(p.ctype[i]) \in RELEVANT_CONTENT_TYPES
  /\ p.clen \notin {"5242881"}

\* C13: a response for a pending request removes it from the pending set; the
\* last-activity time is set to the time of the response only if the response
\* qualifies (relevant, not streaming, at most 5MB) and is otherwise left as it
\* was; a response for a request that is not pending changes nothing.
C13_ResponseSettles ==
  netEv.kind = "response" =>
    IF netEv.req \in netEv.pendingBefore
      THEN /\ pendingRequests = netEv.pendingBefore \ {netEv.req}
           /\ lastActivity = IF Qualifies(netEv.resp) THEN netEv.at
                                                      ELSE netEv.activityBefore
      ELSE /\ pendingRequests = netEv.pendingBefore
           /\ lastActivity = netEv.activityBefore

\* C13 witness: an image response of more than 5MB arrived for a pending request
\* after time had passed; the request left the set, the idle timer did not move.
C13_Witness ==
  /\ netEv.kind = "response"
  /\ netEv.req \in netEv.pendingBefore
  /\ netEv.resp = Response(<<"image/", "png">>, "5242881")
  /\ netEv.at > netEv.activityBefore
  /\ netEv.req \notin pendingRequests
  /\ lastActivity = netEv.activityBefore

\* The polling loop has ended.
Ended == netPc \in {"minwait", "returned"} /\ ~Includes(netLog, "page load failed")

\* C14: the monitor ends its wait only as stable (at a poll with an empty
\* pending set and at least the idle window since the last activity) or as
\* given-up (more than the maximum wait since it started), and it never
\* reports stable while a tracked request is still pending.
C14_StableOnlyWhenIdle ==
  /\ Ended =>
       \/ /\ ~Includes(netLog, "Network timeout")
          /\ pendingRequests = {}
          /\ lastPoll - lastActivity >= IdleWindow
       \/ /\ Includes(netLog, "Network timeout")
          /\ lastPoll - startTime > MaxWait
  /\ Includes(netLog, "Network stabilized") => pendingRequests = {}

\* C15: the network-idle wait always terminates: no poll later than the maximum
\* wait after the start leaves the loop running, and a wait that has begun
\* leads to waitForPageAndFramesLoad returning, whatever requests and
\* responses keep arriving.
C15_WaitTerminates ==
  /\ [](netPc = "polling" => lastPoll - startTime <= MaxWait)
  /\ (pc = "net_wait") ~> (netPc = "returned")

\* C15 witness: the wait gave up with a request still pending and returned.
C15_Witness ==
  /\ netPc = "returned"
  /\ Includes(netLog, "Network timeout")
  /\ pendingRequests # {}

\* The last network event left no tracked request uncompleted, and came early
\* enough for the idle window to pass before the maximum wait: every request
\* tracked before it had its response, the last one its response or its failure,
\* and no request started after it.
AllCompleted(kinds) ==
  /\ netEv.kind \in kinds
  /\ netEv.pendingBefore \subseteq {netEv.req}
  /\ netEv.at + IdleWindow <= startTime + MaxWait

\* C38: if every tracked request completes, with a response or with a failure
\* that produces no response, and no new request starts, the pending set
\* becomes empty and the monitor ends as stable through the idle condition, not
\* through the give-up.
C38_CompletedEndsStable ==
  (Ended /\ AllCompleted({"response", "requestfailed"}))
    => (pendingRequests = {} /\ ~Includes(netLog, "Network timeout"))

\* C38, the part that holds: the same when every tracked request had a response.
C38_RespondedEndsStable ==
  (Ended /\ AllCompleted({"response"}))
    => (pendingRequests = {} /\ ~Includes(netLog, "Network timeout"))

\* --------------------------------------------------------- controller: claims

\* C1: when a snapshot refresh fails at any step, every field of PageState
\* equals its value from before the refresh began, and that state is what the
\* refresh returns.
C1_FailedRefreshKeepsState ==
  op.refresh = "failed" => (state = op.before /\ op.returned = "this._state")

NoDuplicateIndex(d) ==
  \A a, b \in DOMAIN DocNodes(d) :
    (a # b /\ DocNodes(d)[a].highlightIndex # -1)
      => DocNodes(d)[a].highlightIndex # DocNodes(d)[b].highlightIndex

\* C2: in every reachable controller state selectorMap and elementTree come
\* from the same extraction result: the keys of selectorMap are exactly the
\* highlightIndex values carried by nodes of elementTree, every key resolves to
\* a node of that tree, and no index occurs twice.
C2_MapMatchesTree ==
  /\ state.selectorMap.gen = state.elementTree.gen
  /\ DOMAIN SelectorMapOf(state.selectorMap.doc) = TreeIndices(state.elementTree.doc)
  /\ \A i \in DOMAIN SelectorMapOf(state.selectorMap.doc) :
       /\ SelectorMapOf(state.selectorMap.doc)[i] \in Range(DocNodes(state.elementTree.doc))
       /\ SelectorMapOf(state.selectorMap.doc)[i].highlightIndex = i
  /\ NoDuplicateIndex(state.elementTree.doc)

\* C2 witness: a refresh is suspended at title() after it replaced the tree
\* and map of an earlier, different, non-empty snapshot.
C2_Witness ==
  /\ pc = "us_title"
  /\ state.elementTree.gen = refreshNo
  /\ op.before.elementTree.doc # 0
  /\ op.before.elementTree.doc # state.elementTree.doc

\* The controller was constructed with tab id 0 or a url that is not http(s).
Ineligible == tabId = 0 \/ ctorUrl \in {"", "chrome://newtab"}

\* What the last getState() handed to its caller.
ReturnedState ==
  IF op.returned = "placeholder" THEN build_initial_state(tabId, "", "") ELSE state

\* C16: on an ineligible controller getState() returns the empty placeholder
\* (synthetic root, empty map, no screenshot, zero offsets) without raising,
\* without waiting and without a refresh, attach() returns false, and no
\* transport is ever opened.
C16_IneligiblePlaceholder ==
  Ineligible =>
    /\ browser = "null" /\ puppeteerPage = 0 /\ transport.opens = "never"
    /\ pc = "idle" /\ refreshNo = 0
    /\ op.name = "attach" => result.kind = "false"
    /\ op.name = "getState"
         => /\ result.kind = "ok"
            /\ op.returned = "placeholder"
            /\ ReturnedState.elementTree.doc = 0
            /\ DocNodes(ReturnedState.elementTree.doc) = <<>>
            /\ DOMAIN SelectorMapOf(ReturnedState.selectorMap.doc) = {}
            /\ ReturnedState.screenshot.val = "null"
            /\ ReturnedState.pixelsAbove.val = 0
            /\ ReturnedState.pixelsBelow.val = 0

\* C16 witness: getState() was called on a controller built with tab id 0 and
\* an http url, after attach() had been refused.
C16_Witness ==
  /\ tabId = 0 /\ ctorUrl = "http://site"
  /\ op.name = "getState"
  /\ op.returned = "placeholder"
  /\ transport.opens = "never"

\* C17: whenever attach() returns true on an eligible controller, the
\* transport has been opened exactly once and the shim suite installed
\* exactly once since the last detach.
C17_AttachOnce ==
  (op.name = "attach" /\ result.kind = "true")
    => (transport.opens = "once" /\ transport.shims = "once")

\* The empty placeholder of this controller's tab.
Placeholder ==
  [elementTree |-> [gen |-> 0, doc |-> 0], selectorMap |-> [gen |-> 0, doc |-> 0],
   tabId |-> tabId, url |-> [gen |-> 0, val |-> ""], title |-> [gen |-> 0, val |-> ""],
   screenshot |-> [gen |-> 0, val |-> "null"],
   pixelsAbove |-> [gen |-> 0, val |-> 0], pixelsBelow |-> [gen |-> 0, val |-> 0]]

\* C18: from the completion of detach() until the next attach opens a
\* transport, the controller holds no transport and no document handle, is not
\* attached, and PageState is the empty placeholder, also while and after
\* getState() runs; detach() without a transport changes nothing.
C18_DetachedIsPlaceholder ==
  /\ transport.detached
       => /\ browser = "null" /\ puppeteerPage = 0 /\ ~attached
          /\ state = Placeholder
  /\ (op.name = "detach" /\ result.reason = "no transport")
       => /\ state = op.before
          /\ browser = "null" /\ puppeteerPage = 0

\* C18 witness: after a detach, getState() ran a refresh whose extraction
\* succeeded and whose screenshot failed for want of a document handle.
C18_Witness ==
  /\ transport.detached
  /\ op.name = "getState" /\ pc = "idle"
  /\ op.content # 0
  /\ op.failStep = "screenshot"
  /\ state = Placeholder

KeysIssued(kind) ==
  LET evs == KeysOfKind(kind) IN [i \in 1..Len(evs) |-> evs[i].key]

\* The converted modifiers m1..mk and main key of the combination in flight.
WantedModifiers ==
  LET ms == Modifiers(op.keyParts) IN [i \in 1..Len(ms) |-> convertKey(ms[i])]

KindRank(kind) == CASE kind = "down" -> 1 [] kind = "press" -> 2 [] kind = "up" -> 3

SendKeysRan == op.name = "sendKeys" /\ result.reason # "not connected"

SendKeysDone == SendKeysRan /\ pc = "idle"

\* C20: sendKeys issues key-down for m1..mk in order, then the press of the
\* main key, then key-up for mk..m1; it returns only after all k key-ups were
\* issued, whatever failed before or among them, and then raises exactly when
\* a key-down or the press failed.
C20_ModifiersReleased ==
  SendKeysRan =>
    LET k == Len(WantedModifiers)
        downs == KeysIssued("down")
        presses == KeysOfKind("press")
        ups == KeysIssued("up")
    IN  /\ \A i, j \in DOMAIN op.keylog :
             i < j => KindRank(op.keylog[i].kind) <= KindRank(op.keylog[j].kind)
        /\ Len(downs) <= k /\ downs = SubSeq(WantedModifiers, 1, Len(downs))
        /\ Len(presses) <= 1
        /\ presses # <<>>
             => /\ Len(downs) = k
                /\ \A i \in 1..k : KeysOfKind("down")[i].ok
                /\ presses[1].key = convertKey(MainKey(op.keyParts))
        /\ Len(ups) <= k /\ \A i \in DOMAIN ups : ups[i] = WantedModifiers[k + 1 - i]
        /\ ups # <<>>
             => \/ op.keyFail # "none"
                \/ presses # <<>> /\ presses[1].ok
        /\ SendKeysDone
             => /\ Len(ups) = k
                /\ (result.kind = "raised")
                     <=> (\E i \in DOMAIN op.keylog :
                            op.keylog[i].kind # "up" /\ ~op.keylog[i].ok)
                /\ result.kind = "ok" => Len(presses) = 1
                /\ result.kind \in {"ok", "raised"}

\* C20 witness: Control+Shift+a where the press of KeyA failed, the release of
\* Shift failed, Control was released after it and the failure was raised.
C20_Witness ==
  /\ SendKeysDone
  /\ KeysIssued("down") = <<"Control", "Shift">>
  /\ KeysOfKind("press") = <<KeyEvent("press", "KeyA", FALSE)>>
  /\ KeysOfKind("up") = <<KeyEvent("up", "Shift", FALSE), KeyEvent("up", "Control", TRUE)>>
  /\ result.kind = "raised"

\* C39: within one sendKeys call a key-up is issued only for a modifier whose
\* key-down was issued and went through: after a failed key-down no key-up is
\* sent for that modifier or for those after it.
C39_KeyUpOnlyAfterKeyDown ==
  SendKeysRan =>
    LET k == Len(WantedModifiers)
        pressed == Len(SelectSeq(KeysOfKind("down"), LAMBDA e : e.ok))
    IN  \A j \in DOMAIN KeysOfKind("up") : k + 1 - j <= pressed

\* C39, the part that holds: when every key-down went through, the key-ups are
\* those of the modifiers pressed.
C39_KeyUpsWhenAllDown ==
  (SendKeysRan /\ \A i \in DOMAIN KeysOfKind("down") : KeysOfKind("down")[i].ok)
    => (KeysOfKind("up") # <<>> => Len(KeysOfKind("down")) = Len(WantedModifiers))

\* C37: whenever the controller reports attached, the shim suite has been
\* installed on the document handle it holds.
C37_AttachedIsShimmed ==
  attached => puppeteerPage \in transport.shimmed

\* C37, the part that holds: after an attach that returned true for having
\* installed the shims itself, the handle it took is shimmed.
C37_ShimmedAfterFullAttach ==
  (op.name = "attach" /\ result.kind = "true" /\ transport.shims # "never")
    => transport.shimmed # {}

\* C40: a PageState returned by getState is a stable snapshot: no later
\* operation changes a field of the value the caller was given.
C40_ReturnedStateStable ==
  handed.aliased => state = handed.seen

\* C40, the part that holds: the returned value keeps its fields until the next
\* refresh begins, and for good once a detach replaced the state object.
C40_StableUntilNextRefresh ==
  (handed.aliased /\ pc = "idle" /\ op.name = "getState") => state = handed.seen

\* The snapshot generations the fields of PageState come from.
StateGens ==
  {state.elementTree.gen, state.selectorMap.gen, state.url.gen, state.title.gen,
   state.screenshot.gen, state.pixelsAbove.gen, state.pixelsBelow.gen}

\* C28: in every reachable state, a refresh suspended at an await included,
\* all fields of PageState come from one and the same snapshot generation.
C28_OneGeneration == Cardinality(StateGens) = 1

\* C28, the part that holds: when a refresh has succeeded, PageState is of
\* one generation.
C28_OneGenerationAfterSuccess ==
  (pc = "idle" /\ op.refresh = "ok") => Cardinality(StateGens) = 1

ClickOp == op.name = "click"

Attempted == {op.attempts[i].strategy : i \in DOMAIN op.attempts}

AllFailed == \A i \in DOMAIN op.attempts : ~op.attempts[i].ok

\* C7: click attempts its strategies in the fixed order native, script,
\* viewport-center mouse click, page-coordinate mouse click (page center minus
\* the stored scroll offsets), host scripting; no strategy that applies is
\* passed over; the first success ends the call with nothing attempted after
\* it; and when the last strategy has failed too, click raises an error that
\* carries the element's tag and highlightIndex.
C7_ClickLadderOrder ==
  ClickOp =>
    /\ \A i \in DOMAIN op.attempts :
         /\ i < Len(op.attempts)
              => /\ Rank(op.attempts[i].strategy) < Rank(op.attempts[i + 1].strategy)
                 /\ ~op.attempts[i].ok
         /\ op.attempts[i].ok => (pc = "idle" /\ result.kind = "ok")
         /\ \A r \in DOMAIN Ladder :
              (r < Rank(op.attempts[i].strategy)
                 /\ (r <= 2 => op.hasHandle)
                 /\ (r = 3 => op.target.vp # NoPt)
                 /\ (r = 4 => op.target.pg # NoPt))
                => Ladder[r] \in Attempted
         /\ op.attempts[i].strategy = "viewport" => op.attempts[i].at = op.target.vp
         /\ op.attempts[i].strategy = "page"
              => /\ op.attempts[i].at[1] + (IF op.target.scroll = NoPt THEN 0
                                            ELSE op.target.scroll[1]) = op.target.pg[1]
                 /\ op.attempts[i].at[2] + (IF op.target.scroll = NoPt THEN 0
                                            ELSE op.target.scroll[2]) = op.target.pg[2]
    /\ result.kind = "ok" => (op.attempts # <<>> /\ op.attempts[Len(op.attempts)].ok)
    /\ (pc = "idle" /\ "host" \in Attempted /\ AllFailed)
         => /\ result.kind = "raised"
            /\ result.tag = op.node.tagName
            /\ result.idx = op.node.highlightIndex

\* C7 witness: all five strategies were attempted, in order, all failed, and
\* click raised.
C7_Witness ==
  /\ ClickOp /\ pc = "idle" /\ result.kind = "raised"
  /\ Len(op.attempts) = 5
  /\ AllFailed
  /\ op.attempts[4].at = <<5, 5>>

\* C8: click raises only after every strategy of its ladder that applies has
\* been attempted and has failed (the fatal failures of the refresh's handle
\* recovery aside); a failed stabilization wait on a located handle does not
\* end it.
C8_RaisesOnlyAfterLadder ==
  (ClickOp /\ pc = "idle" /\ result.kind = "raised"
     /\ result.reason \notin {"not connected", "no valid pages", "browser pages"})
    => /\ "host" \in Attempted
       /\ op.target.vp # NoPt => "viewport" \in Attempted
       /\ op.target.pg # NoPt => "page" \in Attempted

NoHandleWithCenter ==
  /\ ClickOp
  /\ op.locateCalls = 1
  /\ ~op.hasHandle
  /\ op.target.vp # NoPt

\* C9 as stated: a click without a handle that succeeded through the
\* viewport-center mouse click had attempted, and failed, the native click and
\* the script click before.
C9_NativeAndScriptFirst ==
  (NoHandleWithCenter /\ pc = "idle" /\ result.kind = "ok" /\ result.reason = "viewport")
    => \E i, j \in DOMAIN op.attempts :
         /\ i < j
         /\ op.attempts[i].strategy = "native" /\ ~op.attempts[i].ok
         /\ op.attempts[j].strategy = "script" /\ ~op.attempts[j].ok

\* C9 amended: when locateElement returned not-found and the re-resolved target
\* has a cached viewport center, the mouse click at that center is the first
\* strategy attempted; native click and script click are never attempted; and
\* if that mouse click succeeds, click returns through it with nothing else
\* attempted.
C9_CoordinateFallback ==
  (NoHandleWithCenter /\ pc \in {"ck_try", "idle"})
    => /\ pc = "idle" => op.attempts # <<>>
       /\ "native" \notin Attempted /\ "script" \notin Attempted
       /\ op.attempts # <<>>
            => /\ op.attempts[1].strategy = "viewport"
               /\ op.attempts[1].at = op.target.vp
               /\ op.attempts[1].ok
                    => (pc = "idle" /\ result.kind = "ok" /\ result.reason = "viewport"
                          /\ Len(op.attempts) = 1)

\* C9 witness: no handle, a cached center, and the click succeeded through the
\* viewport-center mouse click on the node re-resolved from the refreshed map.
C9_Witness ==
  /\ NoHandleWithCenter
  /\ pc = "idle" /\ result.kind = "ok" /\ result.reason = "viewport"
  /\ op.refresh = "ok"
  /\ op.attempts = <<Attempt("viewport", TRUE, <<5, 5>>)>>

SelectOp == op.name = "select"

\* C10: selectDropdownOption on a stored node whose tag is not select (in any
\* letter case) raises the tag-mismatch error at once, with locateElement never
\* called and no script evaluated; a select control never gets that error.
C10_TagMismatchImmediate ==
  SelectOp =>
    /\ (op.target # NoNode /\ op.target.tagName \notin {"select", "SELECT"})
         => /\ pc = "idle"
            /\ result.kind = "raised"
            /\ result.reason = "tag mismatch"
            /\ result.tag = op.target.tagName
            /\ op.locateCalls = 0
            /\ op.evalCalls = 0
    /\ result.reason = "tag mismatch" => op.target.tagName \notin {"select", "SELECT"}

\* C10 witness: a button was stored under the index and the call raised the
\* tag mismatch without locating anything.
C10_Witness ==
  /\ SelectOp /\ pc = "idle"
  /\ op.target.tagName = "button"
  /\ result.reason = "tag mismatch"
  /\ op.locateCalls = 0



InputOp == op.name = "input"

InputSteps == [i \in DOMAIN op.attempts |-> op.attempts[i].strategy]

HostInvoked == \E i \in DOMAIN op.attempts : op.attempts[i].strategy = "host"

\* The host script ran and did not set the text.
HostFailed ==
  /\ HostInvoked
  /\ ~ \E i \in DOMAIN op.attempts : op.attempts[i].strategy = "set" /\ op.attempts[i].ok

\* Position of a step among the attempts, 0 if it was not taken.
StepAt(s) ==
  LET at == {i \in DOMAIN op.attempts : op.attempts[i].strategy = s}
  IN  IF at = {} THEN 0 ELSE CHOOSE i \in at : \A j \in at : i <= j

\* C33: inputText on an attached controller uses the host-scripting fallback
\* only when locateElement returned not-found: with a handle the field is
\* cleared before the text is typed and host scripting is never invoked; with
\* no handle the lookups by id, name, aria-label and role=combobox are tried in
\* that order; and once the element was looked for, inputText raises only when
\* that fallback also failed.
C33_RaisesOnlyAfterFallback ==
  (InputOp /\ op.locateCalls = 1 /\ pc = "idle" /\ result.kind = "raised")
    => (~op.hasHandle /\ HostFailed)

\* C33, the part that holds: the fallback runs only without a handle; with a
\* handle the clearing precedes the typing; the lookups run in their order up
\* to the first that finds the element; without a handle the method raises only
\* after the fallback failed.
C33_FallbackOnlyWithoutHandle ==
  InputOp =>
    /\ HostInvoked => (~op.hasHandle /\ op.locateCalls = 1)
    /\ op.hasHandle =>
         /\ Len(InputSteps) <= Len(HandleSteps)
         /\ InputSteps = SubSeq(HandleSteps, 1, Len(InputSteps))
         /\ (pc = "idle" /\ result.kind = "ok") => InputSteps = HandleSteps
    /\ HostInvoked =>
         LET looked == SelectSeq(InputSteps, LAMBDA x : x \notin {"host", "set"})
         IN  /\ \A i, j \in DOMAIN looked :
                  i < j => StepAt(looked[i]) < StepAt(looked[j])
                           /\ ~op.attempts[StepAt(looked[i])].ok
             /\ \E attrs \in SUBSET {"id", "name", "aria-label"} :
                  /\ Len(looked) <= Len(HostLookups(attrs))
                  /\ looked = SubSeq(HostLookups(attrs), 1, Len(looked))
    /\ (pc = "idle" /\ result.kind = "raised" /\ op.locateCalls = 1 /\ ~op.hasHandle)
         => HostFailed

\* The click has re-resolved its node and goes on to locate and act on it.
ClickResolved ==
  op.name = "click" /\ op.refresh # "none" /\ pc \in {"ck_locate", "ck_stabilize", "ck_try"}

\* C35: after the refresh at the start of a click the element located and
\* acted on is the caller's node or a node of the refreshed snapshot with the
\* same logical identity; an unrelated element that received the same
\* highlightIndex is never the target.
C35_TargetKeepsIdentity ==
  ClickResolved => op.target.ident = op.node.ident

\* C35, the part that holds: the target is the refreshed selectorMap's entry for
\* the caller's highlightIndex, or the caller's node when there is none.
C35_TargetByIndex ==
  ClickResolved
    => \/ op.target = op.node
       \/ /\ op.target = MapGet(state.selectorMap, op.node.highlightIndex)
          /\ op.target.highlightIndex = op.node.highlightIndex

\* C34: selectDropdownOption dispatches change and input only if the control's
\* value changed: selecting the option already selected leaves the value as it
\* was and dispatches nothing, so of two calls in a row with the same index and
\* text at most one dispatches events, and both return the same message.
C34_EventsOnlyOnChange ==
  (SelectOp /\ pc = "idle" /\ result.reason = "selected")
    => /\ op.events = (IF selValue # op.valueBefore THEN 2 ELSE 0)
       /\ (op.prior.selected /\ op.prior.index = op.index /\ op.prior.text = op.text)
            => /\ selValue = op.valueBefore
               /\ op.events = 0
               /\ op.prior.events + op.events <= 2
               /\ op.prior.info = result.info

\* C34 witness: the option M was selected twice in a row; the first call changed
\* the value and dispatched both events, the second found it selected.
C34_Witness ==
  /\ SelectOp /\ pc = "idle" /\ result.reason = "selected"
  /\ op.prior.selected /\ op.prior.index = op.index /\ op.prior.text = op.text
  /\ op.text = <<"M">>
  /\ op.prior.events = 2
  /\ op.events = 0

vars == <<hashVars, ctlVars, netVars>>

\* No wait has begun.
NetIdle ==
  /\ netPc = "off"
  /\ clock = 0
  /\ pendingRequests = {}
  /\ lastActivity = 0
  /\ startTime = 0
  /\ lastPoll = 0
  /\ netEv = [kind |-> "none", req |-> NoReq, resp |-> NoResp, at |-> 0,
              pendingBefore |-> {}, activityBefore |-> 0]
  /\ netLog = <<>>

\* The controller of an eligible target, constructed and not yet attached.
CtlIdle == InitCtl /\ tabId = 1 /\ ctorUrl = "http://site"

\* A node whose hash was never asked for.
HashIdle == InitHash /\ hashTag = "div"

InitH == InitHash /\ CtlIdle /\ NetIdle

\* An attachable controller and an idle node: where clicking and selecting start.
InitIdle == CtlIdle /\ HashIdle /\ NetIdle

NextHash ==
  \/ HashCall
  \/ \E i \in DOMAIN comps : CompResolve(i)
  \/ \E i \in DOMAIN comps : CompReject(i)
  \/ ClearHashCache
  \/ ModifyNode

SpecHash == InitH /\ [][NextHash]_vars

Init == InitCtl /\ HashIdle /\ NetIdle

Next ==
  \/ Attach
  \/ Detach
  \/ PageCloses
  \/ GetState
  \/ GsWait
  \/ UsProbe
  \/ UsHighlight
  \/ UsExtract
  \/ UsScreenshot
  \/ UsScroll
  \/ UsTitle

Spec == Init /\ [][Next]_vars

\* The snapshot refresh, whoever called it.
Refresh ==
  \/ UsProbe
  \/ UsHighlight
  \/ UsExtract
  \/ UsScreenshot
  \/ UsScroll
  \/ UsTitle

\* Clicking: the controller of an eligible target is attached and clicked.
NextClick ==
  \/ Attach
  \/ PageCloses
  \/ Refresh
  \/ ClickStart
  \/ ClickResolve
  \/ ClickLocate
  \/ ClickStabilize
  \/ ClickTry

SpecClick == InitIdle /\ [][NextClick]_vars

\* Typing: the controller of an eligible target is attached and typed into.
NextInput ==
  \/ Attach
  \/ Refresh
  \/ InputStart
  \/ InputResolve
  \/ InputLocate
  \/ InputStep
  \/ InputHost

SpecInput == InitIdle /\ [][NextInput]_vars

\* Dropdowns: the controller is attached, snapshots are taken with getState,
\* options are selected by index.
NextSelect ==
  \/ Attach
  \/ Detach
  \/ GetState
  \/ GsWait
  \/ Refresh
  \/ SelectStart
  \/ SelectLocate
  \/ SelectEvaluate

SpecSelect == InitIdle /\ [][NextSelect]_vars

\* sendKeys on a controller that is attached first.
NextKeys ==
  \/ Attach
  \/ SendKeys
  \/ SkDown
  \/ SkPress
  \/ SkSettle
  \/ SkUp
  \/ SkReturn

SpecKeys == InitIdle /\ [][NextKeys]_vars

\* Navigation and scrolling on a controller that is attached and detached.
NextNav ==
  \/ Attach
  \/ Detach
  \/ NavStart
  \/ NavEnd
  \/ ScrollStart
  \/ ScrollEnd
  \/ ScrollToText
  \/ StTry

SpecNav == InitIdle /\ [][NextNav]_vars

\* Selector synthesis as a function of the element and the setting.
NextSelector ==
  \/ Synthesize

SpecSelector == InitIdle /\ [][NextSelector]_vars

\* locateElement on a controller that is attached first.
NextLocate ==
  \/ Attach
  \/ LocStart
  \/ LocFrameQuery
  \/ LocFrameEnter
  \/ LocTry
  \/ LocStabilize
  \/ LocEnd

SpecLocate == InitIdle /\ [][NextLocate]_vars

\* The controller of an eligible target after its first attachPuppeteer()
\* succeeded on a browser whose only page is the tab's.
CtlAttached ==
  /\ tabId = 1
  /\ ctorUrl = "http://site"
  /\ browser = "open"
  /\ puppeteerPage = 1
  /\ openPages = {1}
  /\ state = build_initial_state(tabId, ctorUrl, "ctor")
  /\ pc = "idle"
  /\ op = FreshOp("attach")
  /\ refreshNo = 0
  /\ result = Result("true", "", "", -1)
  /\ selValue = "va"
  /\ transport = [opens |-> "once", shims |-> "once", detached |-> FALSE,
                  shimmed |-> {1}]
  /\ handed = [aliased |-> FALSE, seen |-> state]

InitNet == (CtlIdle \/ CtlAttached) /\ HashIdle /\ NetIdle

\* Waiting for the page: the controller is attached (or not) and one
\* waitForPageAndFramesLoad runs while the page issues requests.
NextNet ==
  \/ NetStart
  \/ Tick
  \/ \E r \in Reqs : OnRequest(r)
  \/ \E r \in Reqs, p \in Resps : OnResponse(r, p)
  \/ \E r \in Reqs : RequestFailed(r)
  \/ Poll
  \/ WaitReturn

SpecNet == InitNet /\ [][NextNet]_vars

\* A navigation verb beside the page-settle wait it starts, once, on a page
\* that issues no request of its own meanwhile.
NextNavWait ==
  \/ Attach
  \/ NavWaitStart
  \/ NavCallSettles
  \/ NavWaitReturns
  \/ Tick
  \/ Poll

SpecNavWait == InitIdle /\ [][NextNavWait]_vars

\* The scroll stabilization wait on a handle, once.
NextScroll ==
  \/ ScrollIntoViewIfNeeded
  \/ SivPoll
  \/ SivSleep

SpecScroll == InitIdle /\ [][NextScroll]_vars

\* The page answers and the timer fires.
SpecScrollLive ==
  SpecScroll /\ WF_vars(ScrollIntoViewIfNeeded) /\ WF_vars(SivPoll) /\ WF_vars(SivSleep)

\* Time advances and due timers fire.
SpecNetLive ==
  SpecNet /\ WF_vars(Tick) /\ WF_vars(Poll) /\ WF_vars(WaitReturn)

====
